---- MODULE Spec2Model ----
(***************************************************************************)
(* The navitia transit model: the Collections bag, Model::new (reference   *)
(* validation and relation building), the relation queries and             *)
(* Model::into_collections.                                                *)
(***************************************************************************)
EXTENDS Integers, Sequences, FiniteSets, TLC

\* Number of writes a collaborator makes to the bag after a feed was read.
MaxEdits == 2

\* The string identifiers a collaborator writes into an id-valued field
\* after the feed was read: "a" is an id of every identified collection of
\* the feed, "x" is the id of no entity of any collection.
Ids == {"a", "x"}

\* Option::None for an optional field.
None == "None"

\* The stop-point indices a collaborator holds: those of the feed's two stop
\* points and one obtained from a larger StopPoint collection.
StopPointIdxs == {1, 2, 3}

VARIABLES
    collections,   \* the caller's Collections bag
    edits,         \* writes made to the bag since the feed was read
    pc,            \* the statement the run is at
    c,             \* Model::new: the parameter c
    rels,          \* Model::new: the relations built so far, by field name
    error,         \* Model::new: the error returned
    model,         \* the Model returned by Model::new
    answer,        \* the IdxSet returned by the last get_corresponding call
    serialized,    \* the data a serializer wrote, a deserializer reads
    comments,      \* a CollectionWithId<Comment> on its own
    returned,      \* what the last operation on comments returned
    assigned,      \* the entity and the Idx of every successful push, by id
    gtfs,          \* the files of a GTFS feed, as parsed rows
    locals,        \* the local bindings of the GTFS reader in progress
    before         \* history: the bag self held when merge was called

\* The state of Model::new, of its callers and of Collections::merge.
modelVars == <<collections, edits, pc, c, rels, error, model, answer>>

\* The state of a CollectionWithId used on its own.
arenaVars == <<comments, returned, assigned>>

vars == <<modelVars, serialized, arenaVars, gtfs, locals, before>>

(***************************************************************************)
(* Collections                                                             *)
(***************************************************************************)

\* #[derivative(Default)]: every collection and the feed_infos map empty.
CollectionsDefault ==
    [contributors |-> <<>>, datasets |-> <<>>, networks |-> <<>>,
     commercial_modes |-> <<>>, lines |-> <<>>, routes |-> <<>>,
     vehicle_journeys |-> <<>>, physical_modes |-> <<>>, stop_areas |-> <<>>,
     stop_points |-> <<>>, feed_infos |-> {}, calendars |-> <<>>,
     companies |-> <<>>, comments |-> <<>>, equipments |-> <<>>,
     transfers |-> <<>>, trip_properties |-> <<>>, geometries |-> <<>>,
     admin_stations |-> <<>>]

Transfer(from_stop_id, to_stop_id) ==
    [from_stop_id |-> from_stop_id, to_stop_id |-> to_stop_id,
     min_transfer_time |-> None, real_min_transfer_time |-> None,
     equipment_id |-> None]

StopTime(stop_point_idx) == [stop_point_idx |-> stop_point_idx]

\* The bag a reader hands over for a small, coherent feed: two entities "a"
\* and "b" per identified collection, every id-valued field of an entity
\* holding the entity's own id, one stop time per vehicle journey and one
\* transfer.
FeedEntities ==
    [id \in {"a", "b"} |->
        [contributors |-> [id |-> id],
         datasets |-> [id |-> id, contributor_id |-> id],
         networks |-> [id |-> id],
         commercial_modes |-> [id |-> id],
         lines |-> [id |-> id, network_id |-> id, commercial_mode_id |-> id],
         routes |-> [id |-> id, line_id |-> id],
         vehicle_journeys |->
             [id |-> id, route_id |-> id, physical_mode_id |-> id,
              dataset_id |-> id, service_id |-> id, company_id |-> id,
              trip_property_id |-> None, geometry_id |-> None,
              stop_times |-> <<StopTime(IF id = "a" THEN 1 ELSE 2)>>],
         physical_modes |-> [id |-> id],
         stop_areas |-> [id |-> id],
         stop_points |-> [id |-> id, stop_area_id |-> id, equipment_id |-> None],
         calendars |-> [id |-> id],
         companies |-> [id |-> id],
         equipments |-> [id |-> id],
         trip_properties |-> [id |-> id],
         geometries |-> [id |-> id]]]

Feed ==
    [field \in DOMAIN CollectionsDefault |->
        IF field \in DOMAIN FeedEntities["a"]
        THEN <<FeedEntities["a"][field], FeedEntities["b"][field]>>
        ELSE IF field = "transfers" THEN <<Transfer("a", "b")>>
        ELSE IF field = "feed_infos" THEN {<<"feed_publisher_name", "a">>}
        ELSE <<>>]

\* CollectionWithId::get_idx: the position of the entity with this id, 0
\* standing for Option::None.
get_idx(collection, id) ==
    IF \E i \in DOMAIN collection : collection[i].id = id
    THEN CHOOSE i \in DOMAIN collection : collection[i].id = id
    ELSE 0

Min(S) == CHOOSE m \in S : \A n \in S : m <= n

Range(s) == {s[i] : i \in DOMAIN s}

(***************************************************************************)
(* Relations.  A relation holds two precomputed maps from an index to an   *)
(* index set: forward (left to right) and backward (right to left).  A     *)
(* map has an entry only for an index that has a related index, except     *)
(* where a constructor is handed a forward map that has empty entries.     *)
(***************************************************************************)

Ok(value) == [ok |-> TRUE, value |-> value]

Err(relation, id) == [ok |-> FALSE, relation |-> relation, id |-> id]

NoError == [relation |-> "", id |-> ""]

\* The index set a map holds for an index; the empty set without an entry.
Lookup(map, idx) == IF idx \in DOMAIN map THEN map[idx] ELSE {}

\* OneToMany::new: every entity of many names, by its foreign key (the id
\* its Id<T> implementation returns, here the field foreign_key), one entity
\* of one; the first entity of many whose key names none fails the
\* construction with the relation's name and the key.
OneToManyNew(one, many, foreign_key, rel_name) ==
    LET one_idx(i) == get_idx(one, many[i][foreign_key])
        unresolved == {i \in DOMAIN many : one_idx(i) = 0}
    IN  IF unresolved # {}
        THEN Err(rel_name, many[Min(unresolved)][foreign_key])
        ELSE Ok([forward |->
                     [a \in {one_idx(i) : i \in DOMAIN many} |->
                         {i \in DOMAIN many : one_idx(i) = a}],
                 backward |->
                     [i \in DOMAIN many |-> {one_idx(i)}]])

\* ManyToMany::from_forward: keeps the forward map and inverts it.
from_forward(forward) ==
    [forward |-> forward,
     backward |->
         [b \in UNION {forward[a] : a \in DOMAIN forward} |->
             {a \in DOMAIN forward : b \in forward[a]}]]

\* Relation::get_from: the left indices that have an entry.
get_from(r) == DOMAIN r.forward

\* get_corresponding_forward answering for the first index of from only.
get_corresponding_forward_first_only(r, from) ==
    IF from = {} THEN {} ELSE Lookup(r.forward, Min(from))

\* Relation::get_corresponding_forward: the union of the entries of from.
get_corresponding_forward(r, from) ==
    UNION {Lookup(r.forward, idx) : idx \in from}

\* Relation::get_corresponding_backward.
get_corresponding_backward(r, from) ==
    UNION {Lookup(r.backward, idx) : idx \in from}

\* ManyToMany::from_relations_chain(A-M, M-B): for every A, the B's reached
\* through every M related to that A.
from_relations_chain(r1, r2) ==
    from_forward(
        [a \in get_from(r1) |->
            get_corresponding_forward(r2, get_corresponding_forward(r1, {a}))])

\* ManyToMany::from_relations_sink(A-M, B-M): for every A, the B's related
\* to an M that A is related to.
from_relations_sink(r1, r2) ==
    from_forward(
        [a \in get_from(r1) |->
            get_corresponding_backward(r2, get_corresponding_forward(r1, {a}))])

(***************************************************************************)
(* The caller: a collaborator that fills the bag and hands it to           *)
(* Model::new.                                                             *)
(***************************************************************************)

\* The caller's variable after the bag was moved into Model::new.
Moved == [moved |-> TRUE]

NoModel == <<>>

NoAnswer == {}

\* Nothing was serialized yet.
NoData == <<>>

\* CollectionWithId::default(): no object and an empty id_to_idx map.
CollectionWithIdDefault == [objects |-> <<>>, id_to_idx |-> <<>>]

\* No operation on comments has returned yet.
NoResult == [ok |-> TRUE, value |-> 0]

\* No feed directory was opened.
NoGtfs == <<>>

\* The variables of the components a run does not use.
Unused(variables) ==
    /\ "serialized" \in variables => serialized = NoData
    /\ "arena" \in variables =>
          /\ comments = CollectionWithIdDefault
          /\ returned = NoResult
          /\ assigned = <<>>
    /\ "gtfs" \in variables => (gtfs = NoGtfs /\ locals = <<>>)
    /\ "before" \in variables => before = CollectionsDefault

\* The caller's state before Model::new was ever called.
InitCaller ==
    /\ collections = CollectionsDefault
    /\ edits = 0
    /\ pc = "caller"
    /\ c = CollectionsDefault
    /\ rels = <<>>
    /\ error = NoError
    /\ model = NoModel
    /\ answer = NoAnswer

Init ==
    /\ InitCaller
    /\ Unused({"serialized", "arena", "gtfs", "before"})

\* A reader fills the default bag from a feed.
ReadFeed ==
    /\ pc = "caller"
    /\ edits = 0
    /\ collections = CollectionsDefault
    /\ collections' = Feed
    /\ UNCHANGED <<edits, pc, c, rels, error, model, answer, serialized, arenaVars, gtfs, locals, before>>

\* The id-valued fields that always hold an id.
ForeignKeys ==
    {<<"datasets", "contributor_id">>,
     <<"lines", "network_id">>,
     <<"lines", "commercial_mode_id">>,
     <<"routes", "line_id">>,
     <<"stop_points", "stop_area_id">>,
     <<"vehicle_journeys", "route_id">>,
     <<"vehicle_journeys", "physical_mode_id">>,
     <<"vehicle_journeys", "dataset_id">>,
     <<"vehicle_journeys", "company_id">>,
     <<"vehicle_journeys", "service_id">>}

\* The id-valued fields of type Option<String>.
OptionalForeignKeys ==
    {<<"vehicle_journeys", "trip_property_id">>,
     <<"vehicle_journeys", "geometry_id">>,
     <<"stop_points", "equipment_id">>,
     <<"transfers", "equipment_id">>}

\* A collaborator writes an id into an id-valued field of an entity (the
\* fields of Collections and of the entities are public).
SetForeignKey ==
    /\ pc = "caller"
    /\ edits < MaxEdits
    /\ \E f \in ForeignKeys \cup OptionalForeignKeys :
       \E i \in DOMAIN collections[f[1]] :
       \E id \in Ids \cup (IF f \in OptionalForeignKeys THEN {None} ELSE {}) :
          /\ collections[f[1]][i][f[2]] # id
          /\ collections' = [collections EXCEPT ![f[1]][i][f[2]] = id]
    /\ edits' = edits + 1
    /\ UNCHANGED <<pc, c, rels, error, model, answer, serialized, arenaVars, gtfs, locals, before>>

\* A collaborator appends a transfer between two stop ids.
PushTransfer ==
    /\ pc = "caller"
    /\ edits < MaxEdits
    /\ \E from_stop_id \in Ids, to_stop_id \in Ids :
          collections' =
              [collections EXCEPT
                  !.transfers = Append(@, Transfer(from_stop_id, to_stop_id))]
    /\ edits' = edits + 1
    /\ UNCHANGED <<pc, c, rels, error, model, answer, serialized, arenaVars, gtfs, locals, before>>

\* A collaborator appends a stop time holding a stop-point index to a
\* vehicle journey.
PushStopTime ==
    /\ pc = "caller"
    /\ edits < MaxEdits
    /\ \E vj_idx \in DOMAIN collections.vehicle_journeys :
       \E stop_point_idx \in StopPointIdxs :
          collections' =
              [collections EXCEPT
                  !.vehicle_journeys[vj_idx].stop_times =
                      Append(@, StopTime(stop_point_idx))]
    /\ edits' = edits + 1
    /\ UNCHANGED <<pc, c, rels, error, model, answer, serialized, arenaVars, gtfs, locals, before>>

(***************************************************************************)
(* Model::new, one action per statement and per field of the struct        *)
(* literal, in evaluation order.                                           *)
(***************************************************************************)

\* The caller moves its bag into Model::new.
CallModelNew ==
    /\ pc \in {"caller", "reclaimed", "syntus_fares_read"}
    /\ c' = collections
    /\ collections' = Moved
    /\ pc' = "forward_vj_to_sp"
    /\ rels' = <<>>
    /\ error' = NoError
    /\ model' = NoModel
    /\ answer' = NoAnswer
    /\ UNCHANGED <<edits, serialized, arenaVars, gtfs, locals, before>>

\* A statement that cannot fail binds its value.
Bind(name, value, next) ==
    /\ rels' = rels @@ (name :> value)
    /\ pc' = next
    /\ UNCHANGED <<collections, edits, c, error, model, answer, serialized, arenaVars, gtfs, locals, before>>

\* A statement ending in `?` binds the value or returns the error, which
\* drops everything built so far.
Try(name, result, next) ==
    /\ IF result.ok
       THEN /\ rels' = rels @@ (name :> result.value)
            /\ pc' = next
            /\ error' = error
       ELSE /\ rels' = <<>>
            /\ pc' = "Err"
            /\ error' = [relation |-> result.relation, id |-> result.id]
    /\ UNCHANGED <<collections, edits, c, model, answer, serialized, arenaVars, gtfs, locals, before>>

\* forward_vj_to_sp keeping only the indices of existing stop points.
forward_vj_to_sp_known_only ==
    /\ pc = "forward_vj_to_sp"
    /\ Bind("forward_vj_to_sp",
            [idx \in DOMAIN c.vehicle_journeys |->
                {st.stop_point_idx : st \in Range(c.vehicle_journeys[idx].stop_times)}
                    \cap DOMAIN c.stop_points],
            "forward_tr_to_sp")

forward_vj_to_sp ==
    /\ pc = "forward_vj_to_sp"
    /\ Bind("forward_vj_to_sp",
            [idx \in DOMAIN c.vehicle_journeys |->
                {st.stop_point_idx : st \in Range(c.vehicle_journeys[idx].stop_times)}],
            "forward_tr_to_sp")

\* The closure of forward_tr_to_sp without the `?` on to_stop_id.
transfer_stop_points_from_only(tr) ==
    IF get_idx(c.stop_points, tr.from_stop_id) = 0
    THEN Err("transfer.from_stop_id", tr.from_stop_id)
    ELSE Ok({get_idx(c.stop_points, tr.from_stop_id)}
            \cup ({get_idx(c.stop_points, tr.to_stop_id)} \ {0}))

\* The closure of forward_tr_to_sp for one transfer.
transfer_stop_points(tr) ==
    IF get_idx(c.stop_points, tr.from_stop_id) = 0
    THEN Err("transfer.from_stop_id", tr.from_stop_id)
    ELSE IF get_idx(c.stop_points, tr.to_stop_id) = 0
    THEN Err("transfer.to_stop_id", tr.to_stop_id)
    ELSE Ok({get_idx(c.stop_points, tr.from_stop_id),
             get_idx(c.stop_points, tr.to_stop_id)})

forward_tr_to_sp ==
    /\ pc = "forward_tr_to_sp"
    /\ LET failed == {idx \in DOMAIN c.transfers :
                         ~transfer_stop_points(c.transfers[idx]).ok}
       IN  Try("forward_tr_to_sp",
               IF failed # {}
               THEN transfer_stop_points(c.transfers[Min(failed)])
               ELSE Ok([idx \in DOMAIN c.transfers |->
                           transfer_stop_points(c.transfers[idx]).value]),
               "vehicle_journeys_to_stop_points")

vehicle_journeys_to_stop_points ==
    /\ pc = "vehicle_journeys_to_stop_points"
    /\ Bind("vehicle_journeys_to_stop_points",
            from_forward(rels.forward_vj_to_sp),
            "routes_to_vehicle_journeys")

routes_to_vehicle_journeys ==
    /\ pc = "routes_to_vehicle_journeys"
    /\ Try("routes_to_vehicle_journeys",
           OneToManyNew(c.routes, c.vehicle_journeys,
                        "route_id",
                        "routes_to_vehicle_journeys"),
           "physical_modes_to_vehicle_journeys")

physical_modes_to_vehicle_journeys ==
    /\ pc = "physical_modes_to_vehicle_journeys"
    /\ Try("physical_modes_to_vehicle_journeys",
           OneToManyNew(c.physical_modes, c.vehicle_journeys,
                        "physical_mode_id",
                        "physical_modes_to_vehicle_journeys"),
           "datasets_to_vehicle_journeys")

\* datasets_to_vehicle_journeys followed by the one-to-many relations of
\* the struct literal, the derived relations left for later.
datasets_to_vehicle_journeys_then_networks_to_lines ==
    /\ pc = "datasets_to_vehicle_journeys"
    /\ Try("datasets_to_vehicle_journeys",
           OneToManyNew(c.datasets, c.vehicle_journeys,
                        "dataset_id",
                        "datasets_to_vehicle_journeys"),
           "networks_to_lines")

datasets_to_vehicle_journeys ==
    /\ pc = "datasets_to_vehicle_journeys"
    /\ Try("datasets_to_vehicle_journeys",
           OneToManyNew(c.datasets, c.vehicle_journeys,
                        "dataset_id",
                        "datasets_to_vehicle_journeys"),
           "routes_to_stop_points")

\* routes_to_stop_points chained from the relation of the next field.
routes_to_stop_points_by_physical_mode ==
    /\ pc = "routes_to_stop_points"
    /\ Bind("routes_to_stop_points",
            from_relations_chain(rels.physical_modes_to_vehicle_journeys,
                                 rels.vehicle_journeys_to_stop_points),
            "physical_modes_to_stop_points")

routes_to_stop_points ==
    /\ pc = "routes_to_stop_points"
    /\ Bind("routes_to_stop_points",
            from_relations_chain(rels.routes_to_vehicle_journeys,
                                 rels.vehicle_journeys_to_stop_points),
            "physical_modes_to_stop_points")

physical_modes_to_stop_points ==
    /\ pc = "physical_modes_to_stop_points"
    /\ Bind("physical_modes_to_stop_points",
            from_relations_chain(rels.physical_modes_to_vehicle_journeys,
                                 rels.vehicle_journeys_to_stop_points),
            "physical_modes_to_routes")

\* physical_modes_to_routes built as a chain instead of a sink.
physical_modes_to_routes_chained ==
    /\ pc = "physical_modes_to_routes"
    /\ Bind("physical_modes_to_routes",
            from_relations_chain(rels.physical_modes_to_vehicle_journeys,
                                 rels.routes_to_vehicle_journeys),
            "datasets_to_stop_points")

physical_modes_to_routes ==
    /\ pc = "physical_modes_to_routes"
    /\ Bind("physical_modes_to_routes",
            from_relations_sink(rels.physical_modes_to_vehicle_journeys,
                                rels.routes_to_vehicle_journeys),
            "datasets_to_stop_points")

datasets_to_stop_points ==
    /\ pc = "datasets_to_stop_points"
    /\ Bind("datasets_to_stop_points",
            from_relations_chain(rels.datasets_to_vehicle_journeys,
                                 rels.vehicle_journeys_to_stop_points),
            "datasets_to_routes")

datasets_to_routes ==
    /\ pc = "datasets_to_routes"
    /\ Bind("datasets_to_routes",
            from_relations_sink(rels.datasets_to_vehicle_journeys,
                                rels.routes_to_vehicle_journeys),
            "datasets_to_physical_modes")

datasets_to_physical_modes ==
    /\ pc = "datasets_to_physical_modes"
    /\ Bind("datasets_to_physical_modes",
            from_relations_sink(rels.datasets_to_vehicle_journeys,
                                rels.physical_modes_to_vehicle_journeys),
            "transfers_to_stop_points")

transfers_to_stop_points ==
    /\ pc = "transfers_to_stop_points"
    /\ Bind("transfers_to_stop_points",
            from_forward(rels.forward_tr_to_sp),
            "networks_to_lines")

\* networks_to_lines reading the other foreign key of a line.
networks_to_lines_by_commercial_mode ==
    /\ pc = "networks_to_lines"
    /\ Try("networks_to_lines",
           OneToManyNew(c.networks, c.lines,
                        "commercial_mode_id",
                        "networks_to_lines"),
           "commercial_modes_to_lines")

networks_to_lines ==
    /\ pc = "networks_to_lines"
    /\ Try("networks_to_lines",
           OneToManyNew(c.networks, c.lines,
                        "network_id",
                        "networks_to_lines"),
           "commercial_modes_to_lines")

commercial_modes_to_lines ==
    /\ pc = "commercial_modes_to_lines"
    /\ Try("commercial_modes_to_lines",
           OneToManyNew(c.commercial_modes, c.lines,
                        "commercial_mode_id",
                        "commercial_modes_to_lines"),
           "lines_to_routes")

lines_to_routes ==
    /\ pc = "lines_to_routes"
    /\ Try("lines_to_routes",
           OneToManyNew(c.lines, c.routes,
                        "line_id",
                        "lines_to_routes"),
           "stop_areas_to_stop_points")

stop_areas_to_stop_points ==
    /\ pc = "stop_areas_to_stop_points"
    /\ Try("stop_areas_to_stop_points",
           OneToManyNew(c.stop_areas, c.stop_points,
                        "stop_area_id",
                        "stop_areas_to_stop_points"),
           "contributors_to_datasets")

contributors_to_datasets ==
    /\ pc = "contributors_to_datasets"
    /\ Try("contributors_to_datasets",
           OneToManyNew(c.contributors, c.datasets,
                        "contributor_id",
                        "contributors_to_datasets"),
           "companies_to_vehicle_journeys")

\* companies_to_vehicle_journeys skipping, instead of refusing, a vehicle
\* journey whose company_id names no company.
companies_to_vehicle_journeys_skipping ==
    /\ pc = "companies_to_vehicle_journeys"
    /\ Bind("companies_to_vehicle_journeys",
            from_forward(
                [idx \in DOMAIN c.companies |->
                    {vj_idx \in DOMAIN c.vehicle_journeys :
                        c.vehicle_journeys[vj_idx].company_id = c.companies[idx].id}]),
            "collections")

companies_to_vehicle_journeys ==
    /\ pc = "companies_to_vehicle_journeys"
    /\ Try("companies_to_vehicle_journeys",
           OneToManyNew(c.companies, c.vehicle_journeys,
                        "company_id",
                        "companies_to_vehicle_journeys"),
           "collections")

\* The relation fields of struct Model.
RelationFields ==
    {"networks_to_lines", "commercial_modes_to_lines", "lines_to_routes",
     "routes_to_vehicle_journeys", "physical_modes_to_vehicle_journeys",
     "stop_areas_to_stop_points", "contributors_to_datasets",
     "datasets_to_vehicle_journeys", "companies_to_vehicle_journeys",
     "vehicle_journeys_to_stop_points", "transfers_to_stop_points",
     "routes_to_stop_points", "physical_modes_to_stop_points",
     "physical_modes_to_routes", "datasets_to_stop_points",
     "datasets_to_routes", "datasets_to_physical_modes"}

\* Model::new returning a Model that owns a default bag instead of c.
ReturnModel_default_collections ==
    /\ pc = "collections"
    /\ model' = [field \in {"collections"} \cup RelationFields |->
                    IF field = "collections" THEN CollectionsDefault ELSE rels[field]]
    /\ rels' = <<>>
    /\ pc' = "Ok"
    /\ UNCHANGED <<collections, edits, c, error, answer, serialized, arenaVars, gtfs, locals, before>>

\* The last field of the struct literal, `collections: c`, and Ok(Model).
ReturnModel ==
    /\ pc = "collections"
    /\ model' = [field \in {"collections"} \cup RelationFields |->
                    IF field = "collections" THEN c ELSE rels[field]]
    /\ rels' = <<>>
    /\ pc' = "Ok"
    /\ UNCHANGED <<collections, edits, c, error, answer, serialized, arenaVars, gtfs, locals, before>>

\* Model::into_collections consumes the Model and returns its bag.
IntoCollections ==
    /\ pc = "Ok"
    /\ collections' = model.collections
    /\ model' = NoModel
    /\ answer' = NoAnswer
    /\ pc' = "reclaimed"
    /\ UNCHANGED <<edits, c, rels, error, serialized, arenaVars, gtfs, locals, before>>

\* read-syntus-fares, run: after `model.into_collections()` the statement
\* `syntus_fares::read(opt.fares, &model.stop_points)` borrows the binding
\* `model`, which into_collections has moved out of; its results are bound
\* and not used.
SyntusFaresRead ==
    /\ pc = "reclaimed"
    /\ pc' = "syntus_fares_read"
    /\ UNCHANGED <<collections, edits, c, rels, error, model, answer, serialized, arenaVars, gtfs, locals, before>>

(***************************************************************************)
(* #[derive(GetCorresponding)]: the registry of relations and the query.   *)
(* Weights are in tenths.                                                  *)
(***************************************************************************)

\* The weight of a field without a get_corresponding attribute (1.0).
DefaultWeight == 10

\* #[get_corresponding(weight = "1.9")]
ShortcutWeight == 19

Relation(field, from_type, to_type, weight) ==
    [field |-> field, from |-> from_type, to |-> to_type, weight |-> weight]

\* The registry with datasets_to_physical_modes declared with the type
\* parameters of the field before it.
Registry_repeated_pair ==
    <<Relation("networks_to_lines", "Network", "Line", DefaultWeight),
      Relation("commercial_modes_to_lines", "CommercialMode", "Line", DefaultWeight),
      Relation("lines_to_routes", "Line", "Route", DefaultWeight),
      Relation("routes_to_vehicle_journeys", "Route", "VehicleJourney", DefaultWeight),
      Relation("physical_modes_to_vehicle_journeys", "PhysicalMode", "VehicleJourney", DefaultWeight),
      Relation("stop_areas_to_stop_points", "StopArea", "StopPoint", DefaultWeight),
      Relation("contributors_to_datasets", "Contributor", "Dataset", DefaultWeight),
      Relation("datasets_to_vehicle_journeys", "Dataset", "VehicleJourney", DefaultWeight),
      Relation("companies_to_vehicle_journeys", "Company", "VehicleJourney", DefaultWeight),
      Relation("vehicle_journeys_to_stop_points", "VehicleJourney", "StopPoint", DefaultWeight),
      Relation("transfers_to_stop_points", "Transfer", "StopPoint", DefaultWeight),
      Relation("routes_to_stop_points", "Route", "StopPoint", ShortcutWeight),
      Relation("physical_modes_to_stop_points", "PhysicalMode", "StopPoint", ShortcutWeight),
      Relation("physical_modes_to_routes", "PhysicalMode", "Route", ShortcutWeight),
      Relation("datasets_to_stop_points", "Dataset", "StopPoint", ShortcutWeight),
      Relation("datasets_to_routes", "Dataset", "Route", ShortcutWeight),
      Relation("datasets_to_physical_modes", "Dataset", "Route", ShortcutWeight)>>

\* The relation fields of struct Model in declaration order, with the two
\* type parameters of each and its weight.
Registry ==
    <<Relation("networks_to_lines", "Network", "Line", DefaultWeight),
      Relation("commercial_modes_to_lines", "CommercialMode", "Line", DefaultWeight),
      Relation("lines_to_routes", "Line", "Route", DefaultWeight),
      Relation("routes_to_vehicle_journeys", "Route", "VehicleJourney", DefaultWeight),
      Relation("physical_modes_to_vehicle_journeys", "PhysicalMode", "VehicleJourney", DefaultWeight),
      Relation("stop_areas_to_stop_points", "StopArea", "StopPoint", DefaultWeight),
      Relation("contributors_to_datasets", "Contributor", "Dataset", DefaultWeight),
      Relation("datasets_to_vehicle_journeys", "Dataset", "VehicleJourney", DefaultWeight),
      Relation("companies_to_vehicle_journeys", "Company", "VehicleJourney", DefaultWeight),
      Relation("vehicle_journeys_to_stop_points", "VehicleJourney", "StopPoint", DefaultWeight),
      Relation("transfers_to_stop_points", "Transfer", "StopPoint", DefaultWeight),
      Relation("routes_to_stop_points", "Route", "StopPoint", ShortcutWeight),
      Relation("physical_modes_to_stop_points", "PhysicalMode", "StopPoint", ShortcutWeight),
      Relation("physical_modes_to_routes", "PhysicalMode", "Route", ShortcutWeight),
      Relation("datasets_to_stop_points", "Dataset", "StopPoint", ShortcutWeight),
      Relation("datasets_to_routes", "Dataset", "Route", ShortcutWeight),
      Relation("datasets_to_physical_modes", "Dataset", "PhysicalMode", ShortcutWeight)>>

\* The collection of Collections that holds the entities of a type.
CollectionOf ==
    [Contributor |-> "contributors", Dataset |-> "datasets",
     Network |-> "networks", CommercialMode |-> "commercial_modes",
     Line |-> "lines", Route |-> "routes",
     VehicleJourney |-> "vehicle_journeys", PhysicalMode |-> "physical_modes",
     StopArea |-> "stop_areas", StopPoint |-> "stop_points",
     Company |-> "companies", Transfer |-> "transfers"]

Types == DOMAIN CollectionOf

\* The indices of the entities of a type in a Model.
Idxs(m, type) == DOMAIN m.collections[CollectionOf[type]]

\* The registered relations whose endpoint types are {A, B}, in either
\* direction.
Candidates(A, B) ==
    {i \in DOMAIN Registry : {Registry[i].from, Registry[i].to} = {A, B}}

\* Model::get_corresponding::<A, B>: the candidate of lowest weight,
\* followed forward when A is its left type and backward otherwise.
get_corresponding(m, A, B, from) ==
    LET candidates == Candidates(A, B)
        selected == CHOOSE i \in candidates :
                        \A j \in candidates :
                            Registry[i].weight <= Registry[j].weight
        r == Registry[selected]
    IN  IF r.from = A
        THEN get_corresponding_forward(m[r.field], from)
        ELSE get_corresponding_backward(m[r.field], from)

\* A caller queries the Model for a type pair that has a registered
\* relation; the Model is unchanged.
GetCorresponding ==
    /\ pc = "Ok"
    /\ \E i \in DOMAIN Registry, forward \in BOOLEAN :
          LET A == IF forward THEN Registry[i].from ELSE Registry[i].to
              B == IF forward THEN Registry[i].to ELSE Registry[i].from
          IN  \E from \in SUBSET Idxs(model, A) :
                 answer' = get_corresponding(model, A, B, from)
    /\ pc' = "answered"
    /\ UNCHANGED <<collections, edits, c, rels, error, model, serialized, arenaVars, gtfs, locals, before>>

\* The caller is done with the IdxSet it was returned.
DropAnswer ==
    /\ pc = "answered"
    /\ answer' = NoAnswer
    /\ pc' = "Ok"
    /\ UNCHANGED <<collections, edits, c, rels, error, model, serialized, arenaVars, gtfs, locals, before>>

Next ==
    \/ ReadFeed
    \/ SetForeignKey
    \/ PushTransfer
    \/ PushStopTime
    \/ CallModelNew
    \/ forward_vj_to_sp
    \/ forward_tr_to_sp
    \/ vehicle_journeys_to_stop_points
    \/ routes_to_vehicle_journeys
    \/ physical_modes_to_vehicle_journeys
    \/ datasets_to_vehicle_journeys
    \/ routes_to_stop_points
    \/ physical_modes_to_stop_points
    \/ physical_modes_to_routes
    \/ datasets_to_stop_points
    \/ datasets_to_routes
    \/ datasets_to_physical_modes
    \/ transfers_to_stop_points
    \/ networks_to_lines
    \/ commercial_modes_to_lines
    \/ lines_to_routes
    \/ stop_areas_to_stop_points
    \/ contributors_to_datasets
    \/ companies_to_vehicle_journeys
    \/ ReturnModel
    \/ GetCorresponding
    \/ DropAnswer
    \/ IntoCollections
    \/ SyntusFaresRead

Spec == Init /\ [][Next]_vars

(***************************************************************************)
(* What the properties are stated in: read off the bag, not off the        *)
(* relations.                                                              *)
(***************************************************************************)

\* Model::new has returned.
Returned == pc \in {"Ok", "Err", "answered", "reclaimed", "syntus_fares_read"}

\* The caller holds a Model.
HoldsModel == pc \in {"Ok", "answered"}

\* Model::new has just returned a Model; a query leaves it as it is.
Constructed == pc = "Ok"

HasId(collection, id) == \E i \in DOMAIN collection : collection[i].id = id

\* Some transfer of the bag has an endpoint that is no stop point's id.
TransferDangling(bag) ==
    \E i \in DOMAIN bag.transfers :
        \/ ~HasId(bag.stop_points, bag.transfers[i].from_stop_id)
        \/ ~HasId(bag.stop_points, bag.transfers[i].to_stop_id)

\* The nine one-to-many relations: the collection of the 'one' side, the
\* collection of the 'many' side and the foreign key of the latter.
OneToManyKeys ==
    {<<"networks", "lines", "network_id">>,
     <<"commercial_modes", "lines", "commercial_mode_id">>,
     <<"lines", "routes", "line_id">>,
     <<"routes", "vehicle_journeys", "route_id">>,
     <<"physical_modes", "vehicle_journeys", "physical_mode_id">>,
     <<"stop_areas", "stop_points", "stop_area_id">>,
     <<"contributors", "datasets", "contributor_id">>,
     <<"companies", "vehicle_journeys", "company_id">>,
     <<"datasets", "vehicle_journeys", "dataset_id">>}

\* An entity of the 'many' side of k holds a key that names no 'one'.
KeyDangling(bag, k) ==
    \E i \in DOMAIN bag[k[2]] : ~HasId(bag[k[1]], bag[k[2]][i][k[3]])

OneToManyDangling(bag) == \E k \in OneToManyKeys : KeyDangling(bag, k)

\* The stop-point indices held by the stop times of a vehicle journey.
StopPointsOf(vj) == {vj.stop_times[i].stop_point_idx : i \in DOMAIN vj.stop_times}

\* Some stop time of the bag holds an index that is no stop point's.
StopTimeDangling(bag) ==
    \E i \in DOMAIN bag.vehicle_journeys :
        ~(StopPointsOf(bag.vehicle_journeys[i]) \subseteq DOMAIN bag.stop_points)

\* The id-valued fields Model::new looks at nowhere: the collection they
\* point into, the collection that holds them and the field.
OtherKeys ==
    {<<"calendars", "vehicle_journeys", "service_id">>,
     <<"trip_properties", "vehicle_journeys", "trip_property_id">>,
     <<"geometries", "vehicle_journeys", "geometry_id">>,
     <<"equipments", "stop_points", "equipment_id">>,
     <<"equipments", "transfers", "equipment_id">>}

\* An entity holds, in field k, an id (not None) that names nothing.
OtherKeyDangling(bag, k) ==
    \E i \in DOMAIN bag[k[2]] :
        /\ bag[k[2]][i][k[3]] # None
        /\ ~HasId(bag[k[1]], bag[k[2]][i][k[3]])

(***************************************************************************)
(* Properties of Model::new.                                               *)
(***************************************************************************)

\* C1: Model::new returns an error whenever a transfer of the bag has a
\* from_stop_id or to_stop_id that is no stop point's id, and returns a
\* Model when every transfer endpoint and every one-to-many foreign key
\* resolves (the default bag included).
C1_TransferEndpointsValidated ==
    Returned =>
        /\ TransferDangling(c) => pc = "Err"
        /\ (~TransferDangling(c) /\ ~OneToManyDangling(c)) => pc # "Err"

\* C1 witness: Model::new has refused a bag whose only fault is a transfer
\* with an unknown to_stop_id.
C1_Witness ==
    /\ pc = "Err"
    /\ error.relation = "transfer.to_stop_id"
    /\ ~OneToManyDangling(c)

\* C2: whenever an entity of the 'many' side of one of the nine one-to-many
\* relations holds a foreign key naming no entity of the 'one' side,
\* Model::new returns an error and at no point is there a Model.
C2_AllOrNothing ==
    (pc # "caller" /\ OneToManyDangling(c)) =>
        /\ ~HoldsModel
        /\ pc # "reclaimed"
        /\ DOMAIN model = {}

\* C2 witness: the last of the nine relations to be built has refused a bag
\* in which a vehicle journey names an unknown company.
C2_Witness ==
    /\ pc = "Err"
    /\ error.relation = "companies_to_vehicle_journeys"
    /\ KeyDangling(c, <<"companies", "vehicle_journeys", "company_id">>)

C4_NoDanglingForeignKey ==
    HoldsModel =>
        /\ ~TransferDangling(model.collections)
        /\ ~OneToManyDangling(model.collections)
        /\ \A k \in OtherKeys : ~OtherKeyDangling(model.collections, k)

\* The vehicle journeys of the bag whose field holds this id.
VehicleJourneysOf(bag, field, id) ==
    {i \in DOMAIN bag.vehicle_journeys : bag.vehicle_journeys[i][field] = id}

\* The stop points of the stop times of the vehicle journeys whose field
\* holds this id.
StopPointsThrough(bag, field, id) ==
    UNION {StopPointsOf(bag.vehicle_journeys[i]) :
              i \in VehicleJourneysOf(bag, field, id)}

\* The three relations chained through the vehicle journeys: the type, and
\* the vehicle journey's foreign key to it.
Chains ==
    {<<"Route", "route_id">>,
     <<"PhysicalMode", "physical_mode_id">>,
     <<"Dataset", "dataset_id">>}

\* C5: in a constructed Model the stop points related to a route are
\* exactly the stop points of the stop times of the vehicle journeys whose
\* route_id is that route, likewise for a physical mode and for a dataset,
\* and the backward direction is the exact inverse.
C5_ChainComposition ==
    Constructed =>
        \A ch \in Chains :
            LET bag == model.collections
                ones == bag[CollectionOf[ch[1]]]
            IN  /\ \A a \in DOMAIN ones :
                      get_corresponding(model, ch[1], "StopPoint", {a})
                          = StopPointsThrough(bag, ch[2], ones[a].id)
                /\ \A sp \in StopPointIdxs :
                      get_corresponding(model, "StopPoint", ch[1], {sp})
                          = {a \in DOMAIN ones :
                                sp \in StopPointsThrough(bag, ch[2], ones[a].id)}

\* C5 witness: a Model in which one route has two vehicle journeys that
\* stop at different stop points, and the route is related to both.
C5_Witness ==
    /\ pc = "Ok"
    /\ \E r \in DOMAIN c.routes :
          /\ Cardinality(VehicleJourneysOf(c, "route_id", c.routes[r].id)) = 2
          /\ Cardinality(get_corresponding(model, "Route", "StopPoint", {r})) = 2

\* The three relations joined on a common vehicle journey: the two types
\* and the vehicle journey's foreign key to each.
Sinks ==
    {<<"PhysicalMode", "physical_mode_id", "Route", "route_id">>,
     <<"Dataset", "dataset_id", "Route", "route_id">>,
     <<"Dataset", "dataset_id", "PhysicalMode", "physical_mode_id">>}

\* C6: in a constructed Model a physical mode and a route are related if and
\* only if some vehicle journey has that physical_mode_id and that route_id,
\* in both directions, and likewise a dataset and a route, a dataset and a
\* physical mode.
C6_SinkComposition ==
    Constructed =>
        \A sk \in Sinks :
            LET bag == model.collections
                as == bag[CollectionOf[sk[1]]]
                bs == bag[CollectionOf[sk[3]]]
                Joined(a, b) ==
                    VehicleJourneysOf(bag, sk[2], as[a].id)
                        \cap VehicleJourneysOf(bag, sk[4], bs[b].id) # {}
            IN  /\ \A a \in DOMAIN as :
                      get_corresponding(model, sk[1], sk[3], {a})
                          = {b \in DOMAIN bs : Joined(a, b)}
                /\ \A b \in DOMAIN bs :
                      get_corresponding(model, sk[3], sk[1], {b})
                          = {a \in DOMAIN as : Joined(a, b)}

\* C6 witness: a Model in which two vehicle journeys share a route and have
\* different physical modes, and both physical modes are related to it.
C6_Witness ==
    /\ pc = "Ok"
    /\ \E r \in DOMAIN c.routes :
          /\ Cardinality({c.vehicle_journeys[i].physical_mode_id :
                 i \in VehicleJourneysOf(c, "route_id", c.routes[r].id)}) = 2
          /\ Cardinality(get_corresponding(model, "Route", "PhysicalMode", {r})) = 2
          /\ \A p \in DOMAIN c.physical_modes :
                r \in get_corresponding(model, "PhysicalMode", "Route", {p})

(***************************************************************************)
(* Properties of the queries.                                              *)
(***************************************************************************)

\* The type whose entities a collection holds.
TypeOf(collection) == CHOOSE type \in Types : CollectionOf[type] = collection

\* The indices of the 'one' side of k that an entity of the 'many' side
\* names by its foreign key.
Named(bag, k) ==
    {a \in DOMAIN bag[k[1]] :
        \E b \in DOMAIN bag[k[2]] : bag[k[2]][b][k[3]] = bag[k[1]][a].id}

\* The second half of C7: from one entity of the 'many' side the query
\* yields exactly the one entity its foreign key names.
BackwardRecoversTheOne(m, k) ==
    \A b \in DOMAIN m.collections[k[2]] :
        get_corresponding(m, TypeOf(k[2]), TypeOf(k[1]), {b})
            = {get_idx(m.collections[k[1]], m.collections[k[2]][b][k[3]])}

\* From a set of the 'one' side to the 'many' side and back.
RoundTrip(m, k, S) ==
    get_corresponding(m, TypeOf(k[2]), TypeOf(k[1]),
        get_corresponding(m, TypeOf(k[1]), TypeOf(k[2]), S))

\* C7 as claimed: for every set S of indices of the 'one' side of a
\* one-to-many relation, going to the 'many' side and back yields a superset
\* of S; and from one 'many' entity the query yields exactly the entity its
\* foreign key names.
C7_RoundTripSuperset ==
    Constructed =>
        \A k \in OneToManyKeys :
            /\ \A S \in SUBSET DOMAIN model.collections[k[1]] :
                  S \subseteq RoundTrip(model, k, S)
            /\ BackwardRecoversTheOne(model, k)

\* C7 amended: going from S to the 'many' side and back yields exactly the
\* indices of S that some 'many' entity names by its foreign key: a subset
\* of S, which is S only when every index of S has a related entity; and
\* from one 'many' entity the query yields exactly the entity its foreign
\* key names.
C7_RoundTripKeepsTheNamed ==
    Constructed =>
        \A k \in OneToManyKeys :
            /\ \A S \in SUBSET DOMAIN model.collections[k[1]] :
                  RoundTrip(model, k, S) = S \cap Named(model.collections, k)
            /\ BackwardRecoversTheOne(model, k)

\* C7 witness: a Model with two networks and two lines in which both lines
\* name the same network, so that the round trip from both networks yields
\* only that one.
C7_Witness ==
    /\ pc = "Ok"
    /\ LET k == <<"networks", "lines", "network_id">>
       IN  /\ Cardinality(get_corresponding(model, "Network", "Line", {1})) = 2
           /\ RoundTrip(model, k, {1, 2}) = {1}

\* The index sets a query for the entities of a type is given: any set of
\* indices of the collection and, for stop points, of the indices a stop
\* time may hold.
Inputs(m, type) ==
    SUBSET (Idxs(m, type) \cup (IF type = "StopPoint" THEN StopPointIdxs ELSE {}))

\* The relation-level query of registry entry i in one direction.
corresponding(m, i, forward, from) ==
    IF forward
    THEN get_corresponding_forward(m[Registry[i].field], from)
    ELSE get_corresponding_backward(m[Registry[i].field], from)

\* C8: for every registered type pair, in both directions, and all index
\* sets S and T the query is defined and is the relation's corresponding,
\* the answer for S \cup T is the union of the answers for S and for T, the
\* answer for the empty set is empty, and an index with no related entity
\* adds nothing to an answer.
C8_UnionOfPerIndexAnswers ==
    Constructed =>
        \A i \in DOMAIN Registry, forward \in BOOLEAN :
            LET A == IF forward THEN Registry[i].from ELSE Registry[i].to
                B == IF forward THEN Registry[i].to ELSE Registry[i].from
            IN  /\ corresponding(model, i, forward, {}) = {}
                /\ \A S \in Inputs(model, A) :
                      /\ get_corresponding(model, A, B, S)
                            = corresponding(model, i, forward, S)
                      /\ \A T \in Inputs(model, A) :
                            /\ corresponding(model, i, forward, S \cup T)
                                  = corresponding(model, i, forward, S)
                                      \cup corresponding(model, i, forward, T)
                            /\ (Cardinality(T) = 1
                                  /\ corresponding(model, i, forward, T) = {})
                               => corresponding(model, i, forward, S \cup T)
                                      = corresponding(model, i, forward, S)

\* C8 witness: a query was answered with two indices by a Model in which
\* the two stop points belong to different vehicle journeys and a third
\* stop-point index has no vehicle journey.
C8_Witness ==
    /\ pc = "answered"
    /\ Cardinality(answer) = 2
    /\ get_corresponding(model, "StopPoint", "VehicleJourney", {1}) = {1}
    /\ get_corresponding(model, "StopPoint", "VehicleJourney", {2}) = {2}
    /\ get_corresponding(model, "StopPoint", "VehicleJourney", {1, 2, 3}) = {1, 2}

\* The fields built by from_relations_chain and from_relations_sink.
Shortcuts ==
    {"routes_to_stop_points", "physical_modes_to_stop_points",
     "physical_modes_to_routes", "datasets_to_stop_points",
     "datasets_to_routes", "datasets_to_physical_modes"}

\* C9: the registry of a constructed Model is its seventeen relation
\* fields and holds at most one relation per unordered pair of types, so
\* the lowest-weight rule never chooses between two; the six shortcut
\* relations carry weight 1.9 and the other eleven the default weight.
C9_OneRelationPerTypePair ==
    Constructed =>
        /\ \A A \in Types, B \in Types : Cardinality(Candidates(A, B)) <= 1
        /\ {i \in DOMAIN Registry : Registry[i].weight = ShortcutWeight}
              = {i \in DOMAIN Registry : Registry[i].field \in Shortcuts}
        /\ Cardinality({Registry[i].field : i \in DOMAIN Registry} \cap Shortcuts) = 6
        /\ Cardinality({i \in DOMAIN Registry : Registry[i].weight = DefaultWeight}) = 11
        /\ {Registry[i].field : i \in DOMAIN Registry} = DOMAIN model \ {"collections"}

\* C9 witness: a Model holding the seventeen relations has answered a query
\* for a pair served by a shortcut relation.
C9_Witness ==
    /\ pc = "answered"
    /\ Cardinality(DOMAIN model \ {"collections"}) = 17
    /\ answer = get_corresponding(model, "Dataset", "PhysicalMode", {1})
    /\ answer = {1, 2}

(***************************************************************************)
(* Properties of into_collections.                                         *)
(***************************************************************************)

\* C10: a returned Model owns exactly the bag Model::new was given, and
\* into_collections hands the caller back exactly that bag: the same
\* entities in the same order, the same ids and feed_infos.
C10_IntoCollectionsReturnsTheBag ==
    /\ HoldsModel => model.collections = c
    /\ pc = "reclaimed" => collections = c

\* C10 witness: the caller has reclaimed a bag that holds the feed and two
\* transfers.
C10_Witness ==
    /\ pc = "reclaimed"
    /\ Len(collections.transfers) = 2
    /\ Len(collections.vehicle_journeys) = 2
    /\ collections.feed_infos # {}

\* The statements of a run that borrow the binding `model`: a query's call
\* and the fares reader's `&model.stop_points`.
BorrowsModel == {"answered", "syntus_fares_read"}

\* C11: once into_collections has been called on a Model, that Model is
\* never read again: every statement that reads `model` is executed while
\* the binding holds a Model, the run of read-syntus-fares included.
C11_ModelNeverReadAfterIntoCollections ==
    pc \in BorrowsModel => DOMAIN model # {}

(***************************************************************************)
(* Serialize and Deserialize for Model.                                    *)
(***************************************************************************)

\* The fields of struct Collections in declaration order.
CollectionsFields ==
    <<"contributors", "datasets", "networks", "commercial_modes", "lines",
      "routes", "vehicle_journeys", "physical_modes", "stop_areas",
      "stop_points", "feed_infos", "calendars", "companies", "comments",
      "equipments", "transfers", "trip_properties", "geometries",
      "admin_stations">>

\* #[derive(Serialize)] for Collections: the fields in declaration order,
\* each as its name and its value.
CollectionsSerialize(bag) ==
    [i \in DOMAIN CollectionsFields |->
        <<CollectionsFields[i], bag[CollectionsFields[i]]>>]

\* #[derive(Deserialize)] for Collections: the struct whose fields are the
\* named values of the data.
CollectionsDeserialize(data) ==
    [field \in {data[i][1] : i \in DOMAIN data} |->
        data[CHOOSE i \in DOMAIN data : data[i][1] = field][2]]

\* A collaborator serializes its bag (Collections derives Serialize).
SerializeCollections ==
    /\ pc = "caller"
    /\ serialized' = CollectionsSerialize(collections)
    /\ pc' = "serialized"
    /\ UNCHANGED <<collections, edits, c, rels, error, model, answer, arenaVars, gtfs, locals, before>>

\* Deserialize for Model accepting the deserialized Collections without
\* Model::new.
DeserializeModel_unvalidated ==
    /\ pc = "serialized"
    /\ c' = CollectionsDeserialize(serialized)
    /\ model' = [field \in {"collections"} \cup RelationFields |->
                    IF field = "collections"
                    THEN CollectionsDeserialize(serialized)
                    ELSE from_forward(<<>>)]
    /\ pc' = "Ok"
    /\ rels' = <<>>
    /\ error' = NoError
    /\ answer' = NoAnswer
    /\ UNCHANGED <<collections, edits, serialized, arenaVars, gtfs, locals, before>>

\* Deserialize for Model: the data is deserialized as Collections and the
\* result is handed to Model::new, whose error becomes the deserializer's.
DeserializeModel ==
    /\ pc = "serialized"
    /\ c' = CollectionsDeserialize(serialized)
    /\ pc' = "forward_vj_to_sp"
    /\ rels' = <<>>
    /\ error' = NoError
    /\ model' = NoModel
    /\ answer' = NoAnswer
    /\ UNCHANGED <<collections, edits, serialized, arenaVars, gtfs, locals, before>>

\* Serialize for Model: serializes self.collections.
SerializeModel ==
    /\ pc = "Ok"
    /\ serialized' = CollectionsSerialize(model.collections)
    /\ pc' = "serialized"
    /\ UNCHANGED <<collections, edits, c, rels, error, model, answer, arenaVars, gtfs, locals, before>>

NextSerde ==
    \/ ReadFeed
    \/ SetForeignKey
    \/ PushTransfer
    \/ PushStopTime
    \/ SerializeCollections
    \/ DeserializeModel
    \/ forward_vj_to_sp
    \/ forward_tr_to_sp
    \/ vehicle_journeys_to_stop_points
    \/ routes_to_vehicle_journeys
    \/ physical_modes_to_vehicle_journeys
    \/ datasets_to_vehicle_journeys
    \/ routes_to_stop_points
    \/ physical_modes_to_stop_points
    \/ physical_modes_to_routes
    \/ datasets_to_stop_points
    \/ datasets_to_routes
    \/ datasets_to_physical_modes
    \/ transfers_to_stop_points
    \/ networks_to_lines
    \/ commercial_modes_to_lines
    \/ lines_to_routes
    \/ stop_areas_to_stop_points
    \/ contributors_to_datasets
    \/ companies_to_vehicle_journeys
    \/ ReturnModel
    \/ SerializeModel

SpecSerde == Init /\ [][NextSerde]_vars

\* The Collections the deserializer makes of the data.
Deserialized == CollectionsDeserialize(serialized)

\* C12: serializing a Model writes its Collections and nothing else; the
\* deserializer hands the deserialized Collections to Model::new and yields
\* a Model, owning exactly those Collections, only when Model::new accepts
\* them: data with a dangling transfer endpoint or one-to-many foreign key
\* deserializes to an error, never to a Model.
C12_DeserializeRevalidates ==
    /\ (pc = "serialized" /\ DOMAIN model # {}) =>
          /\ serialized = CollectionsSerialize(model.collections)
          /\ {serialized[i][1] : i \in DOMAIN serialized} = DOMAIN CollectionsDefault
          /\ Deserialized = model.collections
    /\ pc \in {"Ok", "Err"} =>
          /\ c = Deserialized
          /\ (TransferDangling(Deserialized) \/ OneToManyDangling(Deserialized))
                => pc = "Err"
    /\ pc = "Ok" =>
          /\ model.collections = Deserialized
          /\ ~TransferDangling(Deserialized)
          /\ ~OneToManyDangling(Deserialized)

\* C12 witness: the deserializer has refused data in which a route names an
\* unknown line, with the error of Model::new.
C12_Witness ==
    /\ pc = "Err"
    /\ error.relation = "lines_to_routes"
    /\ serialized # NoData
    /\ KeyDangling(Deserialized, <<"lines", "routes", "line_id">>)

(***************************************************************************)
(* CollectionWithId on its own: the objects in insertion order and the     *)
(* id_to_idx map.  An Idx is the position of an object, counted from 1.    *)
(***************************************************************************)

\* The ids and names of the comments a caller pushes.
CommentIds == {"foo", "bar", "baz"}

CommentNames == {"toto", "tata"}

Comment(id, name) == [id |-> id, name |-> name]

\* CollectionWithId::get_idx on the id_to_idx map, 0 standing for None.
id_to_idx_get(coll, id) ==
    IF id \in DOMAIN coll.id_to_idx THEN coll.id_to_idx[id] ELSE 0

\* CollectionWithId::get: the object at the Idx of the id, or None.
objects_get(coll, id) ==
    IF id_to_idx_get(coll, id) = 0 THEN None
    ELSE coll.objects[id_to_idx_get(coll, id)]

\* Collection::iter: the pairs of Idx and object in position order.
iter(coll) == [i \in DOMAIN coll.objects |-> <<i, coll.objects[i]>>]

\* push replacing the object of an existing id before returning the error.
push_replacing(item) ==
    IF item.id \in DOMAIN comments.id_to_idx
    THEN /\ comments' = [comments EXCEPT !.objects[comments.id_to_idx[item.id]] = item]
         /\ returned' = Err("push", item.id)
         /\ assigned' = assigned
    ELSE /\ comments' =
               [objects |-> Append(comments.objects, item),
                id_to_idx |-> comments.id_to_idx
                                  @@ (item.id :> Len(comments.objects) + 1)]
         /\ returned' = Ok(Len(comments.objects) + 1)
         /\ assigned' = Append(assigned,
                               [item |-> item, idx |-> Len(comments.objects) + 1])

\* push putting the new object in front of the others.
push_in_front(item) ==
    IF item.id \in DOMAIN comments.id_to_idx
    THEN /\ returned' = Err("push", item.id)
         /\ UNCHANGED <<comments, assigned>>
    ELSE /\ comments' =
               [objects |-> <<item>> \o comments.objects,
                id_to_idx |-> comments.id_to_idx
                                  @@ (item.id :> Len(comments.objects) + 1)]
         /\ returned' = Ok(Len(comments.objects) + 1)
         /\ assigned' = Append(assigned,
                               [item |-> item, idx |-> Len(comments.objects) + 1])

\* CollectionWithId::push: an item whose id is in the map is refused and
\* nothing changes; otherwise the item is appended, its id is mapped to the
\* new last position and that Idx is returned.
push(item) ==
    IF item.id \in DOMAIN comments.id_to_idx
    THEN /\ returned' = Err("push", item.id)
         /\ UNCHANGED <<comments, assigned>>
    ELSE /\ comments' =
               [objects |-> Append(comments.objects, item),
                id_to_idx |-> comments.id_to_idx
                                  @@ (item.id :> Len(comments.objects) + 1)]
         /\ returned' = Ok(Len(comments.objects) + 1)
         /\ assigned' = Append(assigned,
                               [item |-> item, idx |-> Len(comments.objects) + 1])

\* A caller pushes a comment (tests::push_on_collection pushes "foo" twice).
Push ==
    /\ \E id \in CommentIds, name \in CommentNames : push(Comment(id, name))
    /\ UNCHANGED <<modelVars, serialized, gtfs, locals, before>>

\* A caller replaces the collection by a new, empty one.
NewCollection ==
    /\ comments.objects # <<>>
    /\ comments' = CollectionWithIdDefault
    /\ returned' = NoResult
    /\ assigned' = <<>>
    /\ UNCHANGED <<modelVars, serialized, gtfs, locals, before>>

NextArena ==
    \/ Push
    \/ NewCollection

SpecArena == Init /\ [][NextArena]_vars

\* C13: a push of an item whose id is already in the collection returns an
\* error and leaves the collection as it was: the same objects in the same
\* order, hence the same length, and the same Idx and object for every id.
C13_DuplicatePushChangesNothing ==
    [][\A id \in DOMAIN comments.id_to_idx, name \in CommentNames :
          push(Comment(id, name)) =>
              /\ ~returned'.ok
              /\ returned'.id = id
              /\ comments'.objects = comments.objects
              /\ Len(comments'.objects) = Len(comments.objects)
              /\ iter(comments') = iter(comments)
              /\ id_to_idx_get(comments', id) = id_to_idx_get(comments, id)
              /\ objects_get(comments', id) = objects_get(comments, id)]_vars

\* C13 witness: "foo" was pushed as toto, then something else, and a push
\* of "foo" was refused; "foo" is still the first object, toto.
C13_Witness ==
    /\ ~returned.ok
    /\ returned.id = "foo"
    /\ Len(comments.objects) = 2
    /\ id_to_idx_get(comments, "foo") = 1
    /\ objects_get(comments, "foo") = Comment("foo", "toto")
    /\ iter(comments)[1][1] = id_to_idx_get(comments, "foo")

\* C14: after any pushes, accepted or refused, every item that was accepted
\* is what get returns for its id, get_idx returns the Idx the push
\* returned, that Idx is the position of the item, and the iteration yields
\* the accepted items, and nothing else, in the order they were pushed.
C14_LookupAndOrderAreStable ==
    /\ Len(iter(comments)) = Len(assigned)
    /\ \A k \in DOMAIN assigned :
          /\ objects_get(comments, assigned[k].item.id) = assigned[k].item
          /\ id_to_idx_get(comments, assigned[k].item.id) = assigned[k].idx
          /\ comments.objects[assigned[k].idx] = assigned[k].item
          /\ iter(comments)[k] = <<assigned[k].idx, assigned[k].item>>

\* C14 witness: three comments were accepted, the last push was refused,
\* and the second accepted comment is still found at Idx 2.
C14_Witness ==
    /\ Len(assigned) = 3
    /\ ~returned.ok
    /\ assigned[2].idx = 2
    /\ objects_get(comments, assigned[2].item.id) = assigned[2].item
    /\ iter(comments)[2][2] = assigned[2].item

(***************************************************************************)
(* Collections::merge, one action per statement.  A collection of the bag  *)
(* is the sequence of its objects; its id_to_idx map is the ids of these.  *)
(***************************************************************************)

\* The most sub-collections in which self and c share an id.
MaxCollisions == 2

\* The fields of Collections of type CollectionWithId.
IdentifiedFields ==
    {"contributors", "datasets", "networks", "commercial_modes", "lines",
     "routes", "vehicle_journeys", "physical_modes", "stop_areas",
     "stop_points", "calendars", "companies", "comments", "equipments",
     "trip_properties", "geometries"}

\* An entity of a sub-collection with this id.
Entity(field, id) ==
    IF field \in DOMAIN FeedEntities["a"]
    THEN [FeedEntities["a"][field] EXCEPT !.id = id]
    ELSE [id |-> id]

\* A bag whose identified sub-collections hold entities with the given ids
\* in the given order, with one transfer and one feed_infos entry.
Bag(ids, feed_info) ==
    [field \in DOMAIN CollectionsDefault |->
        IF field \in IdentifiedFields
        THEN [i \in DOMAIN ids[field] |-> Entity(field, ids[field][i])]
        ELSE IF field = "transfers"
        THEN <<Transfer(ids["stop_points"][1], ids["stop_points"][2])>>
        ELSE IF field = "feed_infos"
        THEN {<<"feed_publisher_name", feed_info>>}
        ELSE <<>>]

\* The ids of the objects of a collection, in order.
IdsOf(objects) == [i \in DOMAIN objects |-> objects[i].id]

RECURSIVE CollectionWithId_merge_skipping(_, _)
\* CollectionWithId::merge leaving out, without an error, an item whose id
\* exists.
CollectionWithId_merge_skipping(objects, other) ==
    IF other = <<>> THEN Ok(objects)
    ELSE IF HasId(objects, Head(other).id)
    THEN CollectionWithId_merge_skipping(objects, Tail(other))
    ELSE CollectionWithId_merge_skipping(Append(objects, Head(other)), Tail(other))

RECURSIVE CollectionWithId_merge(_, _)
\* CollectionWithId::merge: the items of other are appended one after
\* another; the first whose id exists ends the merge with an error naming
\* the id, the items before it staying appended.
CollectionWithId_merge(objects, other) ==
    IF other = <<>> THEN Ok(objects)
    ELSE IF HasId(objects, Head(other).id)
    THEN [ok |-> FALSE, value |-> objects, id |-> Head(other).id]
    ELSE CollectionWithId_merge(Append(objects, Head(other)), Tail(other))

\* Collection::merge: the objects of other are appended.
Collection_merge(objects, other) == Ok(objects \o other)

\* HashMap::extend: the entries of other, and those of self under a key
\* other does not have.
extend(map, other) ==
    {entry \in map : \A o \in other : o[1] # entry[1]} \cup other

\* The bags a caller merges: c holds the ids "a" and "b" in either order in
\* every identified sub-collection; self holds "c" and "d", except in up to
\* MaxCollisions sub-collections, where it holds "b" and "c".
MergeInputs ==
    {<<Bag([field \in IdentifiedFields |->
               IF field \in colliding THEN <<"b", "c">> ELSE <<"c", "d">>], "self"),
       Bag([field \in IdentifiedFields |-> other], "c")>> :
        colliding \in {S \in SUBSET IdentifiedFields : Cardinality(S) <= MaxCollisions},
        other \in {<<"a", "b">>, <<"b", "a">>}}

\* A caller calls self.merge(c).
InitMerge ==
    /\ \E input \in MergeInputs :
          /\ collections = input[1]
          /\ before = input[1]
          /\ c = input[2]
    /\ edits = 0
    /\ pc = "merge"
    /\ rels = <<>>
    /\ error = NoError
    /\ model = NoModel
    /\ answer = NoAnswer
    /\ Unused({"serialized", "arena", "gtfs"})

\* `let Collections { contributors, .., admin_stations } = c;` moves every
\* field of c into a local binding that is not used again; the statements
\* after it name the fields of c, and read what the fields held.
merge_destructure ==
    /\ pc = "merge"
    /\ pc' = "merge.contributors"
    /\ UNCHANGED <<collections, edits, c, rels, error, model, answer, serialized, arenaVars, gtfs, locals, before>>

\* A statement `self.field.merge(c.field)?` (or extend): the sub-collection
\* of self becomes what the merge left; an error is returned at once.
MergeInto(field, merged, next) ==
    /\ collections' = [collections EXCEPT ![field] = merged.value]
    /\ IF merged.ok
       THEN /\ pc' = next
            /\ error' = error
       ELSE /\ pc' = "Err"
            /\ error' = [relation |-> field, id |-> merged.id]
    /\ UNCHANGED <<edits, c, rels, model, answer, serialized, arenaVars, gtfs, locals, before>>

\* merge_contributors going on to networks, leaving out datasets.
merge_contributors_then_networks ==
    /\ pc = "merge.contributors"
    /\ MergeInto("contributors",
                 CollectionWithId_merge(collections.contributors, c.contributors),
                 "merge.networks")

merge_contributors ==
    /\ pc = "merge.contributors"
    /\ MergeInto("contributors",
                 CollectionWithId_merge(collections.contributors, c.contributors),
                 "merge.datasets")

merge_datasets ==
    /\ pc = "merge.datasets"
    /\ MergeInto("datasets",
                 CollectionWithId_merge(collections.datasets, c.datasets),
                 "merge.networks")

merge_networks ==
    /\ pc = "merge.networks"
    /\ MergeInto("networks",
                 CollectionWithId_merge(collections.networks, c.networks),
                 "merge.commercial_modes")

merge_commercial_modes ==
    /\ pc = "merge.commercial_modes"
    /\ MergeInto("commercial_modes",
                 CollectionWithId_merge(collections.commercial_modes, c.commercial_modes),
                 "merge.lines")

merge_lines ==
    /\ pc = "merge.lines"
    /\ MergeInto("lines",
                 CollectionWithId_merge(collections.lines, c.lines),
                 "merge.routes")

merge_routes ==
    /\ pc = "merge.routes"
    /\ MergeInto("routes",
                 CollectionWithId_merge(collections.routes, c.routes),
                 "merge.vehicle_journeys")

merge_vehicle_journeys ==
    /\ pc = "merge.vehicle_journeys"
    /\ MergeInto("vehicle_journeys",
                 CollectionWithId_merge(collections.vehicle_journeys, c.vehicle_journeys),
                 "merge.physical_modes")

merge_physical_modes ==
    /\ pc = "merge.physical_modes"
    /\ MergeInto("physical_modes",
                 CollectionWithId_merge(collections.physical_modes, c.physical_modes),
                 "merge.stop_areas")

merge_stop_areas ==
    /\ pc = "merge.stop_areas"
    /\ MergeInto("stop_areas",
                 CollectionWithId_merge(collections.stop_areas, c.stop_areas),
                 "merge.stop_points")

merge_stop_points ==
    /\ pc = "merge.stop_points"
    /\ MergeInto("stop_points",
                 CollectionWithId_merge(collections.stop_points, c.stop_points),
                 "merge.feed_infos")

merge_feed_infos ==
    /\ pc = "merge.feed_infos"
    /\ MergeInto("feed_infos",
                 Ok(extend(collections.feed_infos, c.feed_infos)),
                 "merge.calendars")

merge_calendars ==
    /\ pc = "merge.calendars"
    /\ MergeInto("calendars",
                 CollectionWithId_merge(collections.calendars, c.calendars),
                 "merge.companies")

merge_companies ==
    /\ pc = "merge.companies"
    /\ MergeInto("companies",
                 CollectionWithId_merge(collections.companies, c.companies),
                 "merge.comments")

merge_comments ==
    /\ pc = "merge.comments"
    /\ MergeInto("comments",
                 CollectionWithId_merge(collections.comments, c.comments),
                 "merge.equipments")

merge_equipments ==
    /\ pc = "merge.equipments"
    /\ MergeInto("equipments",
                 CollectionWithId_merge(collections.equipments, c.equipments),
                 "merge.transfers")

merge_transfers ==
    /\ pc = "merge.transfers"
    /\ MergeInto("transfers",
                 Collection_merge(collections.transfers, c.transfers),
                 "merge.trip_properties")

merge_trip_properties ==
    /\ pc = "merge.trip_properties"
    /\ MergeInto("trip_properties",
                 CollectionWithId_merge(collections.trip_properties, c.trip_properties),
                 "merge.geometries")

merge_geometries ==
    /\ pc = "merge.geometries"
    /\ MergeInto("geometries",
                 CollectionWithId_merge(collections.geometries, c.geometries),
                 "merge.admin_stations")

merge_admin_stations ==
    /\ pc = "merge.admin_stations"
    /\ MergeInto("admin_stations",
                 Collection_merge(collections.admin_stations, c.admin_stations),
                 "Ok")

NextMerge ==
    \/ merge_destructure
    \/ merge_contributors
    \/ merge_datasets
    \/ merge_networks
    \/ merge_commercial_modes
    \/ merge_lines
    \/ merge_routes
    \/ merge_vehicle_journeys
    \/ merge_physical_modes
    \/ merge_stop_areas
    \/ merge_stop_points
    \/ merge_feed_infos
    \/ merge_calendars
    \/ merge_companies
    \/ merge_comments
    \/ merge_equipments
    \/ merge_transfers
    \/ merge_trip_properties
    \/ merge_geometries
    \/ merge_admin_stations

SpecMerge == InitMerge /\ [][NextMerge]_vars

\* The order of the statements of Collections::merge.
MergeOrder ==
    <<"contributors", "datasets", "networks", "commercial_modes",
      "lines", "routes", "vehicle_journeys", "physical_modes",
      "stop_areas", "stop_points", "feed_infos", "calendars",
      "companies", "comments", "equipments", "transfers",
      "trip_properties", "geometries", "admin_stations">>

\* self and c hold an entity of the same id in this sub-collection.
Collides(field) ==
    /\ field \in IdentifiedFields
    /\ Range(IdsOf(before[field])) \cap Range(IdsOf(c[field])) # {}

\* The positions in MergeOrder of the sub-collections with a collision.
Collisions == {i \in DOMAIN MergeOrder : Collides(MergeOrder[i])}

\* What a sub-collection holds once c's was merged into it.
MergedIn(field) ==
    IF field = "feed_infos"
    THEN /\ c.feed_infos \subseteq collections.feed_infos
         /\ collections.feed_infos \subseteq before.feed_infos \cup c.feed_infos
    ELSE collections[field] = before[field] \o c[field]

\* C15: merging ids {a, b} into ids {b, c} fails with an error naming b;
\* merging ids {a, b} into ids {c, d} succeeds and leaves four entities
\* with the four ids; and Collections::merge fails whenever one of its
\* identified sub-collections shares an id with the merged-in bag.
C15_MergeFailsOnDuplicateId ==
    /\ \A field \in IdentifiedFields :
          LET merged == CollectionWithId_merge(before[field], c[field])
          IN  /\ Collides(field) => (~merged.ok /\ merged.id = "b")
              /\ ~Collides(field) =>
                    /\ merged.ok
                    /\ Len(merged.value) = 4
                    /\ Range(IdsOf(merged.value)) = {"a", "b", "c", "d"}
    /\ pc = "Ok" => Collisions = {}
    /\ (pc \in {"Ok", "Err"} /\ Collisions # {}) =>
          /\ pc = "Err"
          /\ error.id = "b"
    /\ pc = "Err" => Collisions # {}

\* C15 witness: a merge has failed, naming b, on a bag whose only collision
\* is in the last identified sub-collection, geometries.
C15_Witness ==
    /\ pc = "Err"
    /\ error.id = "b"
    /\ Collisions = {18}
    /\ Len(collections.contributors) = 4
    /\ Range(IdsOf(collections.contributors)) = {"a", "b", "c", "d"}

\* The position in MergeOrder a run of merge is at: that of the statement
\* about to run, that of the statement that failed, or past the last.
Position ==
    IF pc = "Err" THEN Min(Collisions)
    ELSE IF pc = "Ok" THEN Len(MergeOrder) + 1
    ELSE IF pc = "merge" THEN 1
    ELSE CHOOSE i \in DOMAIN MergeOrder :
             <<pc, MergeOrder[i]>> \in
                 {<<"merge.contributors", "contributors">>,
                  <<"merge.datasets", "datasets">>,
                  <<"merge.networks", "networks">>,
                  <<"merge.commercial_modes", "commercial_modes">>,
                  <<"merge.lines", "lines">>,
                  <<"merge.routes", "routes">>,
                  <<"merge.vehicle_journeys", "vehicle_journeys">>,
                  <<"merge.physical_modes", "physical_modes">>,
                  <<"merge.stop_areas", "stop_areas">>,
                  <<"merge.stop_points", "stop_points">>,
                  <<"merge.feed_infos", "feed_infos">>,
                  <<"merge.calendars", "calendars">>,
                  <<"merge.companies", "companies">>,
                  <<"merge.comments", "comments">>,
                  <<"merge.equipments", "equipments">>,
                  <<"merge.transfers", "transfers">>,
                  <<"merge.trip_properties", "trip_properties">>,
                  <<"merge.geometries", "geometries">>,
                  <<"merge.admin_stations", "admin_stations">>}

\* C18: the sub-collections are merged one after another in the order of
\* MergeOrder; the merge returns an error at the first sub-collection, in
\* that order, that has an id collision; at that moment, as at any moment
\* of the merge, every sub-collection earlier in the order holds the
\* merged-in entities and every later one is as it was.
C18_MergeIsFailFastAndPartial ==
    /\ pc = "Err" => Collisions # {}
    /\ (pc # "Err" /\ Collisions # {}) => Position <= Min(Collisions)
    /\ (pc # "Err" \/ Collisions # {}) =>
          \A i \in DOMAIN MergeOrder :
              /\ i < Position => MergedIn(MergeOrder[i])
              /\ i > Position => collections[MergeOrder[i]] = before[MergeOrder[i]]
              /\ (i = Position /\ pc # "Err") =>
                    collections[MergeOrder[i]] = before[MergeOrder[i]]

\* C18 witness: the merge has failed on vehicle_journeys; routes, before it
\* in the order, holds the merged-in routes and physical_modes, after it,
\* holds c's ids nowhere, although it has a collision of its own.
C18_Witness ==
    /\ pc = "Err"
    /\ Collisions = {7, 8}
    /\ Len(collections.routes) = 4
    /\ collections.physical_modes = before.physical_modes
    /\ collections.feed_infos = before.feed_infos

(***************************************************************************)
(* The order of the steps of Model::new.                                   *)
(***************************************************************************)

\* The fields built by OneToMany::new.
OneToManyFields ==
    {"networks_to_lines", "commercial_modes_to_lines", "lines_to_routes",
     "routes_to_vehicle_journeys", "physical_modes_to_vehicle_journeys",
     "stop_areas_to_stop_points", "contributors_to_datasets",
     "datasets_to_vehicle_journeys", "companies_to_vehicle_journeys"}

\* The step of the stated order that builds a value: 1 the resolved
\* references, 2 the one-to-many relations, 3 the two direct many-to-many
\* relations, 4 the derived relations.
StatedStep(name) ==
    IF name \in {"forward_vj_to_sp", "forward_tr_to_sp"} THEN 1
    ELSE IF name \in OneToManyFields THEN 2
    ELSE IF name \in Shortcuts THEN 4
    ELSE 3

\* A dangling transfer endpoint is reported in preference to any dangling
\* one-to-many foreign key.
TransferErrorPreferred ==
    (pc = "Err" /\ TransferDangling(c)) =>
        error.relation \in {"transfer.from_stop_id", "transfer.to_stop_id"}

\* C17 as claimed: the values are built in the stated order, so that no
\* many-to-many and no derived relation exists before all nine one-to-many
\* relations do, and a dangling transfer endpoint is reported first.
C17_StatedOrder ==
    /\ \A built \in DOMAIN rels :
       \A pending \in ({"forward_vj_to_sp", "forward_tr_to_sp"} \cup RelationFields)
                          \ DOMAIN rels :
           StatedStep(built) <= StatedStep(pending)
    /\ TransferErrorPreferred

\* The statements of Model::new in the order they are executed.
ConstructionOrder ==
    <<"forward_vj_to_sp", "forward_tr_to_sp",
      "vehicle_journeys_to_stop_points",
      "routes_to_vehicle_journeys", "physical_modes_to_vehicle_journeys",
      "datasets_to_vehicle_journeys",
      "routes_to_stop_points", "physical_modes_to_stop_points",
      "physical_modes_to_routes", "datasets_to_stop_points",
      "datasets_to_routes", "datasets_to_physical_modes",
      "transfers_to_stop_points",
      "networks_to_lines", "commercial_modes_to_lines", "lines_to_routes",
      "stop_areas_to_stop_points", "contributors_to_datasets",
      "companies_to_vehicle_journeys",
      "collections">>

\* C17 amended: Model::new resolves the references, builds
\* vehicle_journeys_to_stop_points, the three one-to-many relations of the
\* vehicle journeys, the six derived relations, transfers_to_stop_points,
\* the other six one-to-many relations, and takes ownership, in this order:
\* what is built at a statement is exactly what the statements before it
\* build; the derived relations exist while six one-to-many relations are
\* not yet built, and an error of one of these is still returned; a
\* dangling transfer endpoint is reported first.
C17_ConstructionOrder ==
    /\ \A i \in DOMAIN ConstructionOrder :
          pc = ConstructionOrder[i] =>
              DOMAIN rels = {ConstructionOrder[j] : j \in 1 .. (i - 1)}
    /\ (pc = "Err" /\ error.relation \in OneToManyFields) =>
          \E k \in OneToManyKeys : KeyDangling(c, k)
    /\ TransferErrorPreferred

\* C17 witness: the six derived relations are built, none of the last six
\* one-to-many relations is, and the first of them is about to refuse a
\* line that names an unknown network.
C17_Witness ==
    /\ pc = "networks_to_lines"
    /\ Shortcuts \subseteq DOMAIN rels
    /\ "transfers_to_stop_points" \in DOMAIN rels
    /\ "companies_to_vehicle_journeys" \notin DOMAIN rels
    /\ KeyDangling(c, <<"networks", "lines", "network_id">>)

(***************************************************************************)
(* gtfs::read_transfers and the statements of gtfs::read around it.        *)
(***************************************************************************)

\* The most rows of a transfers.txt.
MaxTransferRows == 2

\* The stop ids of a feed: "s1" and "s2" may be stop points of stops.txt,
\* "x" is the id of none.
StopIds == {"s1", "s2", "x"}

\* The sequences of at most n elements of S.
SeqUpTo(S, n) == UNION {[1 .. len -> S] : len \in 0 .. n}

\* Option<u32>: Some(value), and None.
Some(value) == <<value>>

NoTime == <<>>

\* enum TransferType, in the order of the GTFS values 0 to 3.
TransferType == {"Recommended", "Timed", "WithTransferTime", "NotPossible"}

\* A row of transfers.txt whose transfer_type and min_transfer_time are
\* empty: struct Transfer with the default of its transfer_type.
TransferRow(from_stop_id, to_stop_id) ==
    [from_stop_id |-> from_stop_id, to_stop_id |-> to_stop_id,
     transfer_type |-> "Recommended", min_transfer_time |-> NoTime]

\* A stop point at a place, in metres along a line.
StopPoint(id, coord) == Entity("stop_points", id) @@ [coord |-> coord]

\* Coord::distance_to, in metres.
distance_to(from, to) == IF from >= to THEN from - to ELSE to - from

\* (distance / 0.785) as u32 for a distance in whole metres: the integer
\* part of distance * 200 / 157, which for a distance on Earth is far from
\* the largest u32, as is its sum with 120.
transfer_time_of(distance) ==
    (distance \div 157) * 200 + ((distance % 157) * 200) \div 157

\* The match of read_transfers on the transfer_type of a row, the margin of
\* a recommended transfer being left out.
transfer_times_without_margin(transfer, from_stop_point, to_stop_point) ==
    LET distance == distance_to(from_stop_point.coord, to_stop_point.coord)
        transfer_time == transfer_time_of(distance)
    IN  CASE transfer.transfer_type = "Recommended" ->
                 <<Some(transfer_time), Some(transfer_time)>>
          [] transfer.transfer_type = "Timed" -> <<Some(0), Some(0)>>
          [] transfer.transfer_type = "WithTransferTime" ->
                 <<transfer.min_transfer_time, transfer.min_transfer_time>>
          [] transfer.transfer_type = "NotPossible" -> <<Some(86400), Some(86400)>>

\* The match of read_transfers on the transfer_type of a row:
\* (min_transfer_time, real_min_transfer_time).
transfer_times(transfer, from_stop_point, to_stop_point) ==
    LET distance == distance_to(from_stop_point.coord, to_stop_point.coord)
        transfer_time == transfer_time_of(distance)
    IN  CASE transfer.transfer_type = "Recommended" ->
                 <<Some(transfer_time),
                   Some(transfer_time + 2 * 60)>>
          [] transfer.transfer_type = "Timed" -> <<Some(0), Some(0)>>
          [] transfer.transfer_type = "WithTransferTime" ->
                 <<transfer.min_transfer_time, transfer.min_transfer_time>>
          [] transfer.transfer_type = "NotPossible" -> <<Some(86400), Some(86400)>>

\* The objects::Transfer read_transfers pushes for a row whose stop points
\* were found.
to_ntfs_transfer(transfer, from_stop_point, to_stop_point) ==
    LET times == transfer_times(transfer, from_stop_point, to_stop_point)
    IN  [from_stop_id |-> from_stop_point.id,
         to_stop_id |-> to_stop_point.id,
         min_transfer_time |-> times[1],
         real_min_transfer_time |-> times[2],
         equipment_id |-> None]

\* transfers.txt: absent, or its rows.
TransfersFiles ==
    {[exists |-> FALSE, rows |-> <<>>]}
        \cup {[exists |-> TRUE, rows |-> rows] :
                 rows \in SeqUpTo({TransferRow(from, to) :
                                      from \in StopIds, to \in StopIds},
                                  MaxTransferRows)}

\* The stop points read_stops has returned.
StopPointsRead ==
    {<<>>,
     <<StopPoint("s1", 0)>>,
     <<StopPoint("s2", 126)>>,
     <<StopPoint("s1", 0), StopPoint("s2", 126)>>}

\* gtfs::read has bound stop_points and is about to call read_transfers.
InitTransfers ==
    /\ \E file \in TransfersFiles : gtfs = [transfers |-> file]
    /\ \E stop_points \in StopPointsRead :
          locals = [stop_points |-> stop_points, transfers |-> <<>>, row |-> 1]
    /\ collections = CollectionsDefault
    /\ pc = "read_transfers"
    /\ edits = 0
    /\ c = CollectionsDefault
    /\ rels = <<>>
    /\ error = NoError
    /\ model = NoModel
    /\ answer = NoAnswer
    /\ Unused({"serialized", "arena", "before"})

\* read_transfers up to the loop: without the file an empty collection is
\* returned.
read_transfers_open ==
    /\ pc = "read_transfers"
    /\ pc' = IF gtfs.transfers.exists THEN "read_transfers.for"
             ELSE "collections.transfers"
    /\ UNCHANGED <<collections, edits, c, rels, error, model, answer, serialized, arenaVars, gtfs, locals, before>>

\* skip_fail!: the value of a lookup that found an object; the loop goes
\* on to the next row when it found none.
skip_fail(stop_points, id) == get_idx(stop_points, id)

\* One turn of the loop with `?` in the place of skip_fail!.
read_transfers_for_failing ==
    /\ pc = "read_transfers.for"
    /\ locals.row <= Len(gtfs.transfers.rows)
    /\ LET transfer == gtfs.transfers.rows[locals.row]
           from_stop_point == skip_fail(locals.stop_points, transfer.from_stop_id)
           to_stop_point == skip_fail(locals.stop_points, transfer.to_stop_id)
       IN  IF from_stop_point = 0 \/ to_stop_point = 0
           THEN /\ pc' = "Err"
                /\ error' = [relation |-> "transfers.txt",
                             id |-> IF from_stop_point = 0
                                    THEN transfer.from_stop_id
                                    ELSE transfer.to_stop_id]
                /\ UNCHANGED locals
           ELSE /\ locals' =
                      [locals EXCEPT
                          !.transfers =
                              Append(@, to_ntfs_transfer(
                                            transfer,
                                            locals.stop_points[from_stop_point],
                                            locals.stop_points[to_stop_point])),
                          !.row = @ + 1]
                /\ UNCHANGED <<pc, error>>
    /\ UNCHANGED <<collections, edits, c, rels, model, answer, serialized, arenaVars, gtfs, before>>

\* One turn of the loop of read_transfers: a row whose from_stop_id or
\* to_stop_id is the id of no stop point is skipped; for any other row a
\* Transfer with the ids of the two stop points is pushed.
read_transfers_for ==
    /\ pc = "read_transfers.for"
    /\ locals.row <= Len(gtfs.transfers.rows)
    /\ LET transfer == gtfs.transfers.rows[locals.row]
           from_stop_point == skip_fail(locals.stop_points, transfer.from_stop_id)
           to_stop_point == skip_fail(locals.stop_points, transfer.to_stop_id)
       IN  IF from_stop_point = 0 \/ to_stop_point = 0
           THEN locals' = [locals EXCEPT !.row = @ + 1]
           ELSE locals' =
                    [locals EXCEPT
                        !.transfers =
                            Append(@, to_ntfs_transfer(
                                          transfer,
                                          locals.stop_points[from_stop_point],
                                          locals.stop_points[to_stop_point])),
                        !.row = @ + 1]
    /\ UNCHANGED <<collections, edits, pc, c, rels, error, model, answer, serialized, arenaVars, gtfs, before>>

\* The loop is over: Ok(Collection::new(transfers)).
read_transfers_return ==
    /\ pc = "read_transfers.for"
    /\ locals.row > Len(gtfs.transfers.rows)
    /\ pc' = "collections.transfers"
    /\ UNCHANGED <<collections, edits, c, rels, error, model, answer, serialized, arenaVars, gtfs, locals, before>>

\* gtfs::read: collections.transfers = read_transfers(path, &stop_points)?
set_transfers ==
    /\ pc = "collections.transfers"
    /\ collections' = [collections EXCEPT !.transfers = locals.transfers]
    /\ pc' = "collections.stop_points"
    /\ UNCHANGED <<edits, c, rels, error, model, answer, serialized, arenaVars, gtfs, locals, before>>

\* gtfs::read: collections.stop_points = stop_points
set_stop_points ==
    /\ pc = "collections.stop_points"
    /\ collections' = [collections EXCEPT !.stop_points = locals.stop_points]
    /\ pc' = "manage_shapes"
    /\ UNCHANGED <<edits, c, rels, error, model, answer, serialized, arenaVars, gtfs, locals, before>>

NextTransfers ==
    \/ read_transfers_open
    \/ read_transfers_for
    \/ read_transfers_return
    \/ set_transfers
    \/ set_stop_points

SpecTransfers == InitTransfers /\ [][NextTransfers]_vars

\* The two stop ids of each of the transfers.
Endpoints(transfers) ==
    [i \in DOMAIN transfers |->
        <<transfers[i].from_stop_id, transfers[i].to_stop_id>>]

\* The stop ids of the rows, among the first n of the file, whose two stop
\* ids are ids of the stop points passed in, in file order.
RECURSIVE KeptTransfers(_)
KeptTransfers(n) ==
    IF n = 0 THEN <<>>
    ELSE LET row == gtfs.transfers.rows[n]
         IN  IF /\ HasId(locals.stop_points, row.from_stop_id)
                /\ HasId(locals.stop_points, row.to_stop_id)
             THEN Append(KeptTransfers(n - 1),
                         <<row.from_stop_id, row.to_stop_id>>)
             ELSE KeptTransfers(n - 1)

\* C19: read_transfers returns no error for a row with an unresolved stop
\* id; what it has collected at any moment, and what gtfs::read stores, is
\* the rows read so far whose from_stop_id and to_stop_id are both ids of
\* the stop points passed in, in file order, so that every stored transfer
\* names two of these stop points.
C19_UnresolvedTransfersSkipped ==
    /\ pc # "Err"
    /\ Endpoints(locals.transfers) = KeptTransfers(locals.row - 1)
    /\ pc \in {"collections.transfers", "collections.stop_points", "manage_shapes"} =>
          locals.row = Len(gtfs.transfers.rows) + 1
    /\ pc \in {"collections.stop_points", "manage_shapes"} =>
          /\ Endpoints(collections.transfers) = KeptTransfers(Len(gtfs.transfers.rows))
          /\ \A i \in DOMAIN collections.transfers :
                /\ HasId(locals.stop_points, collections.transfers[i].from_stop_id)
                /\ HasId(locals.stop_points, collections.transfers[i].to_stop_id)
    /\ pc = "manage_shapes" => ~TransferDangling(collections)

\* C19 witness: of two rows the first, from an unknown stop, was skipped and
\* the second was kept.
C19_Witness ==
    /\ pc = "manage_shapes"
    /\ Len(gtfs.transfers.rows) = 2
    /\ gtfs.transfers.rows[1].from_stop_id = "x"
    /\ Endpoints(collections.transfers) = <<(<<"s1", "s2">>)>>

(***************************************************************************)
(* gtfs::read_routes, one action per statement.                            *)
(***************************************************************************)

\* The most rows of a routes.txt.
MaxRoutes == 2

\* The route ids of a feed, in the order of String.
RouteIdOrder == <<"r1", "r2">>

\* The networks read_agency may have returned: none, one or two.
NetworksRead ==
    {<<>>,
     <<Entity("networks", "n1")>>,
     <<Entity("networks", "n1"), Entity("networks", "n2")>>}

\* to_string of an unsigned integer
Digits == <<"0", "1", "2", "3", "4", "5", "6", "7", "8", "9">>

RECURSIVE to_string(_)
to_string(n) ==
    IF n < 10 THEN Digits[n + 1]
    ELSE to_string(n \div 10) \o Digits[(n % 10) + 1]

\* The largest u16.
u16_MAX == 65535

\* enum RouteType: a named variant, or Other(value).
RouteType(variant, value) == [variant |-> variant, value |-> value]

\* The named variants of RouteType in the order of their GTFS values 0 to 7.
RouteTypes ==
    <<"Tramway_LightRail", "Metro", "Rail", "Bus", "Ferry", "CableCar",
      "Gondola_SuspendedCableCar", "Funicular">>

\* Deserialize for RouteType without the fallback to 3.
RouteType_deserialize_without_fallback(i) ==
    IF i <= 7 THEN RouteType(RouteTypes[i + 1], 0) ELSE RouteType("Other", i)

\* Deserialize for RouteType: of the u16 read, 8 to 98 are replaced by 3,
\* then 0 to 7 give the named variants and the others Other(i).
RouteType_deserialize(i) ==
    LET fallback == IF i > 7 /\ i < 99 THEN 3 ELSE i
    IN  IF fallback <= 7 THEN RouteType(RouteTypes[fallback + 1], 0)
        ELSE RouteType("Other", fallback)

\* RouteType::to_gtfs_value
to_gtfs_value(route_type) ==
    IF route_type.variant = "Other" THEN to_string(route_type.value)
    ELSE to_string((CHOOSE n \in DOMAIN RouteTypes :
                       RouteTypes[n] = route_type.variant) - 1)

\* get_commercial_mode_label
get_commercial_mode_label(route_type) ==
    CASE route_type.variant = "Tramway_LightRail" -> "Tram, Streetcar, Light rail"
      [] route_type.variant = "Metro" -> "Subway, Metro"
      [] route_type.variant = "Rail" -> "Rail"
      [] route_type.variant = "Bus" -> "Bus"
      [] route_type.variant = "Ferry" -> "Ferry"
      [] route_type.variant = "CableCar" -> "Cable car"
      [] route_type.variant = "Gondola_SuspendedCableCar" -> "Gondola, Suspended cable car"
      [] route_type.variant = "Funicular" -> "Funicular"
      [] route_type.variant = "Other" -> "Unknown Mode"

\* get_commercial_mode
get_commercial_mode(route_type) ==
    [id |-> to_gtfs_value(route_type),
     name |-> get_commercial_mode_label(route_type)]

\* get_physical_mode
get_physical_mode(route_type) ==
    CASE route_type.variant = "Tramway_LightRail" ->
             [id |-> "RailShuttle", name |-> "Rail Shuttle"]
      [] route_type.variant = "Metro" -> [id |-> "Metro", name |-> "Metro"]
      [] route_type.variant = "Rail" -> [id |-> "Train", name |-> "Train"]
      [] route_type.variant = "Ferry" -> [id |-> "Ferry", name |-> "Ferry"]
      [] route_type.variant \in {"CableCar", "Gondola_SuspendedCableCar", "Funicular"} ->
             [id |-> "Funicular", name |-> "Funicular"]
      [] route_type.variant \in {"Bus", "Other"} -> [id |-> "Bus", name |-> "Bus"]

\* The physical modes in the order of a BTreeSet.
PhysicalModeOrder ==
    <<[id |-> "Bus", name |-> "Bus"],
      [id |-> "Ferry", name |-> "Ferry"],
      [id |-> "Funicular", name |-> "Funicular"],
      [id |-> "Metro", name |-> "Metro"],
      [id |-> "RailShuttle", name |-> "Rail Shuttle"],
      [id |-> "Train", name |-> "Train"]>>

\* A row of routes.txt: struct Route, route_type being the number in the
\* file, here 3.
GtfsRoute(id, agency_id, short_name) ==
    [id |-> id, agency_id |-> agency_id, short_name |-> short_name,
     long_name |-> "L", route_type |-> 3]

\* The rows a routes.txt is made of: with or without agency_id, with or
\* without short name.
GtfsRoutes ==
    {GtfsRoute(id, agency_id, short_name) :
        id \in Range(RouteIdOrder), agency_id \in {None, "n1"},
        short_name \in {"", "1"}}

\* enum Availability
Availability == {"InformationNotAvailable", "Available", "NotAvailable"}

\* A row of trips.txt: struct Trip, with the default of its two
\* accessibility columns.
GtfsTrip(id, route_id, direction) ==
    [id |-> id, route_id |-> route_id, direction |-> direction,
     service_id |-> "a", shape_id |-> None,
     wheelchair_accessible |-> "InformationNotAvailable",
     bikes_allowed |-> "InformationNotAvailable"]

\* The rows a trips.txt is made of, in the order they have in the file.
GtfsTrips ==
    <<GtfsTrip("t1", "r1", "Forward"), GtfsTrip("t2", "r1", "Backward"),
      GtfsTrip("t3", "r2", "Forward"), GtfsTrip("t4", "r2", "Backward")>>

\* The trips.txt files: any of the rows.
TripsFiles ==
    {LET InFile(t) == t \in rows IN SelectSeq(GtfsTrips, InFile) :
        rows \in SUBSET Range(GtfsTrips)}

\* gtfs::read has read the configuration and agency.txt and calls
\* read_routes on a feed directory.
InitRoutes ==
    /\ \E routes \in SeqUpTo(GtfsRoutes, MaxRoutes), trips \in TripsFiles :
          gtfs = [routes |-> routes, trips |-> trips]
    /\ \E networks \in NetworksRead :
          collections =
              [CollectionsDefault EXCEPT
                  !.contributors = <<Entity("contributors", "a")>>,
                  !.datasets = <<Entity("datasets", "a")>>,
                  !.networks = networks]
    /\ locals = [gtfs_routes |-> <<>>, gtfs_trips |-> <<>>, map_line_routes |-> <<>>]
    /\ pc = "read_routes"
    /\ edits = 0
    /\ c = CollectionsDefault
    /\ rels = <<>>
    /\ error = NoError
    /\ model = NoModel
    /\ answer = NoAnswer
    /\ Unused({"serialized", "arena", "before"})

\* CollectionWithId::new: the objects, unless two of them have the same id.
CollectionWithIdNew(objects) ==
    LET repeated == {i \in DOMAIN objects :
                        \E j \in 1 .. (i - 1) : objects[j].id = objects[i].id}
    IN  IF repeated = {} THEN Ok(objects)
        ELSE Err("CollectionWithId::new", objects[Min(repeated)].id)

\* get_agency_id choosing, without an error, the first of several networks.
get_agency_id_first_network(route, networks) ==
    IF route.agency_id # None THEN Ok(route.agency_id)
    ELSE IF Len(networks) >= 1 THEN Ok(networks[1].id)
    ELSE Err("get_agency_id", "no network found")

\* get_agency_id: the route's agency_id; without one, the id of the only
\* network, an error when there are several networks or none.
get_agency_id(route, networks) ==
    IF route.agency_id # None THEN Ok(route.agency_id)
    ELSE IF Len(networks) = 1 THEN Ok(networks[1].id)
    ELSE IF Len(networks) > 1
    THEN Err("get_agency_id", "several networks found")
    ELSE Err("get_agency_id", "no network found")

\* get_line_key grouping the routes by name alone.
get_line_key_name_only(route) ==
    <<None,
      IF route.short_name # "" THEN route.short_name ELSE route.long_name>>

\* Route::get_line_key
get_line_key(route) ==
    <<route.agency_id,
      IF route.short_name # "" THEN route.short_name ELSE route.long_name>>

\* get_id_by_direction giving both directions the id of the route.
get_id_by_direction_forward(route, d) == route.id

\* Route::get_id_by_direction
get_id_by_direction(route, d) ==
    IF d = "Forward" THEN route.id ELSE route.id \o "_R"

\* The place of a route id in the order of String.
Rank(id) == CHOOSE i \in DOMAIN RouteIdOrder : RouteIdOrder[i] = id

\* get_route_with_smallest_name: the route of smallest id.
get_route_with_smallest_name(routes) ==
    CHOOSE r \in Range(routes) : \A o \in Range(routes) : Rank(r.id) <= Rank(o.id)

\* The sequences that hold every element of S once: the orders in which a
\* HashMap may be iterated.
Orderings(S) ==
    {order \in [1 .. Cardinality(S) -> S] : Range(order) = S}

\* map_line_routes: the routes of each line key, in file order.
map_line_routes(gtfs_routes, key) ==
    LET HasKey(r) == get_line_key(r) = key IN SelectSeq(gtfs_routes, HasKey)

\* The closure of the loop of make_lines for one group: the line of the
\* group, if its route of smallest id has a trip.
make_line(gtfs_trips, routes, networks) ==
    LET r == get_route_with_smallest_name(routes)
        network_id == get_agency_id(r, networks)
    IN  IF \E i \in DOMAIN gtfs_trips : gtfs_trips[i].route_id = r.id
        THEN IF network_id.ok
             THEN Ok(<<[id |-> r.id, network_id |-> network_id.value,
                        commercial_mode_id |-> to_gtfs_value(r.route_type)]>>)
             ELSE network_id
        ELSE Ok(<<>>)

RECURSIVE make_lines(_, _, _)
\* make_lines: the lines of the groups in the order of the map; the first
\* error of get_agency_id is returned.
make_lines(gtfs_trips, groups, networks) ==
    IF groups = <<>> THEN Ok(<<>>)
    ELSE LET line == make_line(gtfs_trips, Head(groups), networks)
             others == make_lines(gtfs_trips, Tail(groups), networks)
         IN  IF ~line.ok THEN line
             ELSE IF ~others.ok THEN others
             ELSE Ok(line.value \o others.value)

\* enum DirectionType
DirectionType == {"Forward", "Backward"}

\* The orders in which the HashSet route_directions of each route may be
\* iterated.
DirectionOrders == [Range(RouteIdOrder) -> Orderings(DirectionType)]

\* The directions of the trips of a route, in the order the HashSet
\* route_directions is iterated.
route_directions(gtfs_trips, r, order) ==
    LET OfRoute(d) == \E i \in DOMAIN gtfs_trips :
                          /\ gtfs_trips[i].route_id = r.id
                          /\ gtfs_trips[i].direction = d
    IN  SelectSeq(order[r.id], OfRoute)

RECURSIVE routes_of_group(_, _, _, _)
\* The inner loops of make_routes for the routes rs of a group whose route
\* of smallest id is sr: a Route per direction of the trips of each.
routes_of_group(gtfs_trips, rs, sr, order) ==
    IF rs = <<>> THEN <<>>
    ELSE LET r == Head(rs)
             directions == route_directions(gtfs_trips, r, order)
         IN  [i \in DOMAIN directions |->
                 [id |-> get_id_by_direction(r, directions[i]),
                  line_id |-> sr.id]]
                 \o routes_of_group(gtfs_trips, Tail(rs), sr, order)

RECURSIVE make_routes(_, _, _)
\* make_routes: the routes of the groups in the order of the map.
make_routes(gtfs_trips, groups, order) ==
    IF groups = <<>> THEN <<>>
    ELSE routes_of_group(gtfs_trips, Head(groups),
                         get_route_with_smallest_name(Head(groups)), order)
             \o make_routes(gtfs_trips, Tail(groups), order)

\* Trip::to_ntfs_vehicle_journey, which panics when the trip's route_id is
\* the id of no route.
to_ntfs_vehicle_journey(trip, routes, dataset, trip_property_id, networks) ==
    IF get_idx(routes, trip.route_id) = 0
    THEN Err("panic", trip.route_id)
    ELSE LET route == routes[get_idx(routes, trip.route_id)]
             company_id == get_agency_id(route, networks)
         IN  IF company_id.ok
             THEN Ok(<<[id |-> trip.id,
                        route_id |-> get_id_by_direction(route, trip.direction),
                        physical_mode_id |-> get_physical_mode(route.route_type).id,
                        dataset_id |-> dataset.id,
                        service_id |-> trip.service_id,
                        company_id |-> company_id.value,
                        trip_property_id |-> trip_property_id,
                        geometry_id |-> trip.shape_id,
                        stop_times |-> <<>>]>>)
             ELSE company_id

\* A trip property made for trips with wheelchair information only.
has_trip_property_wheelchair_only(wheelchair, bike) ==
    wheelchair # "InformationNotAvailable"

\* The test of make_ntfs_vehicle_journeys on the key of a group of trips:
\* whether the group gets a trip property.
has_trip_property(wheelchair, bike) ==
    ~(wheelchair = "InformationNotAvailable" /\ bike = "InformationNotAvailable")

\* struct TripProperty as make_ntfs_vehicle_journeys fills it.
TripProperty(id, wheelchair, bike) ==
    [id |-> id, wheelchair_accessible |-> wheelchair, bike_accepted |-> bike]

RECURSIVE trips_to_vehicle_journeys(_, _, _, _, _)
\* The inner loop of make_ntfs_vehicle_journeys: the vehicle journeys of
\* the trips of a group, or the first error or panic.
trips_to_vehicle_journeys(trips, routes, dataset, property_id, networks) ==
    IF trips = <<>> THEN Ok(<<>>)
    ELSE LET vj == to_ntfs_vehicle_journey(Head(trips), routes, dataset,
                                           property_id, networks)
             others == trips_to_vehicle_journeys(Tail(trips), routes, dataset,
                                                 property_id, networks)
         IN  IF ~vj.ok THEN vj
             ELSE IF ~others.ok THEN others
             ELSE Ok(vj.value \o others.value)

RECURSIVE make_ntfs_vehicle_journeys(_, _, _, _, _, _)
\* make_ntfs_vehicle_journeys from the point where map_tps_trips holds the
\* trips of each (wheelchair, bike) key: the loop over the map, iterated in
\* the given order of its keys, with id_incr the next trip property id.
make_ntfs_vehicle_journeys(gtfs_trips, routes, dataset, networks, order, id_incr) ==
    IF order = <<>>
    THEN Ok([vehicle_journeys |-> <<>>, trip_properties |-> <<>>])
    ELSE LET wheelchair == Head(order)[1]
             bike == Head(order)[2]
             OfKey(t) == /\ t.wheelchair_accessible = wheelchair
                         /\ t.bikes_allowed = bike
             trips == SelectSeq(gtfs_trips, OfKey)
             property == has_trip_property(wheelchair, bike)
             property_id == IF property THEN to_string(id_incr) ELSE None
             made == trips_to_vehicle_journeys(trips, routes, dataset,
                                               property_id, networks)
             others == make_ntfs_vehicle_journeys(
                           gtfs_trips, routes, dataset, networks, Tail(order),
                           IF property THEN id_incr + 1 ELSE id_incr)
         IN  IF ~made.ok THEN made
             ELSE IF ~others.ok THEN others
             ELSE Ok([vehicle_journeys |->
                          made.value \o others.value.vehicle_journeys,
                      trip_properties |->
                          (IF property
                           THEN <<TripProperty(to_string(id_incr), wheelchair, bike)>>
                           ELSE <<>>) \o others.value.trip_properties])

\* A statement of read_routes ending in `?` that assigns a collection.
SetCollection(field, objects, next) ==
    /\ IF objects.ok
       THEN /\ collections' = [collections EXCEPT ![field] = objects.value]
            /\ pc' = next
            /\ error' = error
       ELSE /\ pc' = "Err"
            /\ error' = [relation |-> objects.relation, id |-> objects.id]
            /\ UNCHANGED collections
    /\ UNCHANGED <<edits, c, rels, model, answer, serialized, arenaVars, gtfs, locals, before>>

\* routes.txt is read, the route_type of each row being deserialized, and
\* CollectionWithId::new(gtfs_routes)? made of it.
read_routes_txt ==
    /\ pc = "read_routes"
    /\ LET gtfs_routes ==
               [i \in DOMAIN gtfs.routes |->
                   [gtfs.routes[i] EXCEPT
                       !.route_type = RouteType_deserialize(gtfs.routes[i].route_type)]]
           gtfs_routes_collection == CollectionWithIdNew(gtfs_routes)
       IN  IF gtfs_routes_collection.ok
           THEN /\ locals' = [locals EXCEPT !.gtfs_routes = gtfs_routes_collection.value]
                /\ pc' = "get_modes_from_gtfs"
                /\ error' = error
           ELSE /\ pc' = "Err"
                /\ error' = [relation |-> gtfs_routes_collection.relation,
                             id |-> gtfs_routes_collection.id]
                /\ UNCHANGED locals
    /\ UNCHANGED <<collections, edits, c, rels, model, answer, serialized, arenaVars, gtfs, before>>

\* get_modes_from_gtfs: the commercial modes of the route types of the
\* routes in the order of the HashSet; the physical modes in the order of
\* the BTreeSet.
get_modes_from_gtfs(gtfs_mode_types) ==
    LET physical_modes == {get_physical_mode(mt) : mt \in Range(gtfs_mode_types)}
        FromTypes(pm) == pm \in physical_modes
    IN  [commercial_modes |->
             [i \in DOMAIN gtfs_mode_types |-> get_commercial_mode(gtfs_mode_types[i])],
         physical_modes |-> SelectSeq(PhysicalModeOrder, FromTypes)]

\* get_modes_from_gtfs and the two assignments after it, the HashSet
\* gtfs_mode_types being iterated in an order of its own.
set_modes ==
    /\ pc = "get_modes_from_gtfs"
    /\ \E gtfs_mode_types \in
              Orderings({r.route_type : r \in Range(locals.gtfs_routes)}) :
          LET modes == get_modes_from_gtfs(gtfs_mode_types)
              commercial_modes == CollectionWithIdNew(modes.commercial_modes)
              physical_modes == CollectionWithIdNew(modes.physical_modes)
          IN  IF ~commercial_modes.ok
              THEN /\ pc' = "Err"
                   /\ error' = [relation |-> commercial_modes.relation,
                                id |-> commercial_modes.id]
                   /\ UNCHANGED collections
              ELSE IF ~physical_modes.ok
              THEN /\ pc' = "Err"
                   /\ error' = [relation |-> physical_modes.relation,
                                id |-> physical_modes.id]
                   /\ collections' =
                         [collections EXCEPT
                             !.commercial_modes = commercial_modes.value]
              ELSE /\ pc' = "trips.txt"
                   /\ error' = error
                   /\ collections' =
                         [collections EXCEPT
                             !.commercial_modes = commercial_modes.value,
                             !.physical_modes = physical_modes.value]
    /\ UNCHANGED <<edits, c, rels, model, answer, serialized, arenaVars, gtfs, locals, before>>

\* trips.txt is read.
read_trips_txt ==
    /\ pc = "trips.txt"
    /\ locals' = [locals EXCEPT !.gtfs_trips = gtfs.trips]
    /\ pc' = "map_line_routes"
    /\ UNCHANGED <<collections, edits, c, rels, error, model, answer, serialized, arenaVars, gtfs, before>>

\* let map_line_routes = map_line_routes(&gtfs_routes_collection): a
\* HashMap, whose values are iterated in an order of its own.
set_map_line_routes ==
    /\ pc = "map_line_routes"
    /\ \E order \in Orderings({get_line_key(r) : r \in Range(locals.gtfs_routes)}) :
          locals' =
              [locals EXCEPT
                  !.map_line_routes =
                      [i \in DOMAIN order |->
                          map_line_routes(locals.gtfs_routes, order[i])]]
    /\ pc' = "make_lines"
    /\ UNCHANGED <<collections, edits, c, rels, error, model, answer, serialized, arenaVars, gtfs, before>>

\* make_lines(..)? and collections.lines = CollectionWithId::new(lines)?
set_lines ==
    /\ pc = "make_lines"
    /\ LET lines == make_lines(locals.gtfs_trips, locals.map_line_routes,
                               collections.networks)
       IN  SetCollection("lines",
                         IF lines.ok THEN CollectionWithIdNew(lines.value) ELSE lines,
                         "make_routes")

\* make_routes(..) and collections.routes = CollectionWithId::new(routes)?
set_routes ==
    /\ pc = "make_routes"
    /\ \E order \in DirectionOrders :
          SetCollection("routes",
                        CollectionWithIdNew(
                            make_routes(locals.gtfs_trips, locals.map_line_routes,
                                        order)),
                        "make_ntfs_vehicle_journeys")

\* make_ntfs_vehicle_journeys(..)?, the map map_tps_trips being iterated in
\* an order of its own, and the two assignments after it.
set_vehicle_journeys ==
    /\ pc = "make_ntfs_vehicle_journeys"
    /\ \E order \in Orderings({<<t.wheelchair_accessible, t.bikes_allowed>> :
                                  t \in Range(locals.gtfs_trips)}) :
          LET made == make_ntfs_vehicle_journeys(
                          locals.gtfs_trips, locals.gtfs_routes,
                          collections.datasets[1], collections.networks, order, 1)
              vehicle_journeys == CollectionWithIdNew(made.value.vehicle_journeys)
              trip_properties == CollectionWithIdNew(made.value.trip_properties)
          IN  IF ~made.ok /\ made.relation = "panic"
              THEN /\ pc' = "panicked"
                   /\ UNCHANGED <<collections, error>>
              ELSE IF ~made.ok
              THEN /\ pc' = "Err"
                   /\ error' = [relation |-> made.relation, id |-> made.id]
                   /\ UNCHANGED collections
              ELSE IF ~vehicle_journeys.ok
              THEN /\ pc' = "Err"
                   /\ error' = [relation |-> vehicle_journeys.relation,
                                id |-> vehicle_journeys.id]
                   /\ UNCHANGED collections
              ELSE IF ~trip_properties.ok
              THEN /\ pc' = "Err"
                   /\ error' = [relation |-> trip_properties.relation,
                                id |-> trip_properties.id]
                   /\ collections' =
                         [collections EXCEPT
                             !.vehicle_journeys = vehicle_journeys.value]
              ELSE /\ pc' = "Ok"
                   /\ error' = error
                   /\ collections' =
                         [collections EXCEPT
                             !.vehicle_journeys = vehicle_journeys.value,
                             !.trip_properties = trip_properties.value]
    /\ UNCHANGED <<edits, c, rels, model, answer, serialized, arenaVars, gtfs, locals, before>>

NextRoutes ==
    \/ read_routes_txt
    \/ set_modes
    \/ read_trips_txt
    \/ set_map_line_routes
    \/ set_lines
    \/ set_routes
    \/ set_vehicle_journeys

SpecRoutes == InitRoutes /\ [][NextRoutes]_vars

\* read_routes has returned Ok.
RoutesRead == pc = "Ok" /\ DOMAIN gtfs = {"routes", "trips"}

\* The routes of routes.txt that have a trip in trips.txt.
RoutesWithTrips ==
    {r \in Range(gtfs.routes) :
        \E i \in DOMAIN gtfs.trips : gtfs.trips[i].route_id = r.id}

\* The network a route belongs to when its agency id can be resolved.
ResolvedAgency(r) ==
    IF r.agency_id # None THEN r.agency_id ELSE collections.networks[1].id

\* C16 as stated: a route's agency_id is used when it has one; when it has
\* none the only network's id is used, and reading fails when there are
\* no networks or several.  Here: read_routes never returns Ok on a
\* routes.txt with a route without agency_id unless there is exactly one
\* network.
C16_ReadingFailsWithoutSoleNetwork ==
    RoutesRead =>
        \A r \in Range(gtfs.routes) :
            r.agency_id = None => Len(collections.networks) = 1

\* C16, amended: get_agency_id answers a route's agency_id when it has
\* one, the id of the only network when it has none, and an error when
\* there are no networks or several; read_routes resolves the id of every
\* route that has a trip (for the network of its line and the company of
\* its vehicle journeys), fails when one of these cannot be resolved, and
\* never resolves the id of a route without trips.
C16_AgencyIdResolvedWhereNeeded ==
    /\ pc # "read_routes" /\ DOMAIN gtfs = {"routes", "trips"} =>
          \A r \in Range(gtfs.routes) :
              LET agency_id == get_agency_id(r, collections.networks)
              IN  /\ r.agency_id # None =>
                        agency_id.ok /\ agency_id.value = r.agency_id
                  /\ r.agency_id = None /\ Len(collections.networks) = 1 =>
                        agency_id.ok /\ agency_id.value = collections.networks[1].id
                  /\ r.agency_id = None /\ Len(collections.networks) # 1 =>
                        ~agency_id.ok
    /\ RoutesRead =>
          /\ \A r \in RoutesWithTrips :
                r.agency_id = None => Len(collections.networks) = 1
          /\ \A i \in DOMAIN collections.lines :
                \E r \in RoutesWithTrips :
                    /\ r.id = collections.lines[i].id
                    /\ collections.lines[i].network_id = ResolvedAgency(r)
          /\ \A i \in DOMAIN collections.vehicle_journeys :
                \E j \in DOMAIN gtfs.trips, r \in RoutesWithTrips :
                    /\ gtfs.trips[j].id = collections.vehicle_journeys[i].id
                    /\ gtfs.trips[j].route_id = r.id
                    /\ collections.vehicle_journeys[i].company_id = ResolvedAgency(r)
    /\ pc = "Err" /\ DOMAIN gtfs = {"routes", "trips"}
          /\ error.relation = "get_agency_id" =>
          \E r \in RoutesWithTrips :
              r.agency_id = None /\ Len(collections.networks) # 1

\* A feed with one network has been read whose route without agency_id got
\* the network's id for its line and for its vehicle journey.
C16_Witness ==
    /\ RoutesRead
    /\ Len(collections.networks) = 1
    /\ \E r \in RoutesWithTrips, i \in DOMAIN collections.lines,
          j \in DOMAIN collections.vehicle_journeys :
          /\ r.agency_id = None
          /\ collections.lines[i].id = r.id
          /\ collections.lines[i].network_id = collections.networks[1].id
          /\ collections.vehicle_journeys[j].route_id = r.id
          /\ collections.vehicle_journeys[j].company_id = collections.networks[1].id

\* C20: once read_routes has returned Ok, the line_id of every Route it
\* made is the id of a Line it made.
C20_EveryRouteNamesAProducedLine ==
    RoutesRead =>
        \A i \in DOMAIN collections.routes :
            get_idx(collections.lines, collections.routes[i].line_id) # 0

\* read_routes has assigned collections.routes.
RoutesMade ==
    /\ pc \in {"make_ntfs_vehicle_journeys", "Ok", "panicked"}
    /\ DOMAIN gtfs = {"routes", "trips"}

\* The name that makes the line of a route with its agency.
LineName(r) == IF r.short_name = "" THEN r.long_name ELSE r.short_name

\* The routes of routes.txt of the same agency_id and name as r.
LineGroup(r) ==
    {o \in Range(gtfs.routes) :
        o.agency_id = r.agency_id /\ LineName(o) = LineName(r)}

\* The smallest route id of the group of r.
SmallestId(r) ==
    RouteIdOrder[Min({Rank(o.id) : o \in LineGroup(r)})]

\* The routes of routes.txt a Route of the given id is made from.
MadeFrom(id) ==
    {r \in Range(gtfs.routes) : id \in {r.id, r.id \o "_R"}}

\* C21: the routes of routes.txt are grouped by agency_id and name (the
\* short name, the long name when the short name is empty); a group has at
\* most one Line, whose id is the smallest route id of the group, and the
\* line_id of every Route made from a route of the group is that id.
C21_LinePerGroup ==
    RoutesMade =>
        /\ \A r \in Range(gtfs.routes) :
              LET lines == {i \in DOMAIN collections.lines :
                               \E o \in LineGroup(r) : collections.lines[i].id = o.id}
              IN  /\ Cardinality(lines) <= 1
                  /\ \A i \in lines : collections.lines[i].id = SmallestId(r)
        /\ \A i \in DOMAIN collections.lines :
              \E r \in Range(gtfs.routes) : collections.lines[i].id = r.id
        /\ \A i \in DOMAIN collections.routes :
              /\ MadeFrom(collections.routes[i].id) # {}
              /\ \A r \in MadeFrom(collections.routes[i].id) :
                    collections.routes[i].line_id = SmallestId(r)

\* Two routes of one group have trips: there is one Line, of the smaller
\* id, and the Routes of both name it.
C21_Witness ==
    /\ RoutesMade
    /\ \E r, o \in Range(gtfs.routes) :
          /\ r.id = "r1" /\ o.id = "r2" /\ o \in LineGroup(r)
          /\ Len(collections.lines) = 1
          /\ collections.lines[1].id = "r1"
          /\ \E i, j \in DOMAIN collections.routes :
                /\ collections.routes[i].id = "r1"
                /\ collections.routes[j].id = "r2"
                /\ collections.routes[i].line_id = "r1"
                /\ collections.routes[j].line_id = "r1"

\* The directions of the trips of trips.txt on a route.
TripDirections(r) ==
    {gtfs.trips[i].direction :
        i \in {j \in DOMAIN gtfs.trips : gtfs.trips[j].route_id = r.id}}

\* C22: there is exactly one Route for each route of routes.txt and each
\* direction its trips have, of the route's id for Forward and of the
\* route's id followed by "_R" for Backward; a route without trips has no
\* Route; so the route_id of every vehicle journey is the id of exactly one
\* Route.
C22_RoutePerDirection ==
    /\ RoutesMade =>
          /\ \A r \in Range(gtfs.routes) :
                /\ Cardinality({i \in DOMAIN collections.routes :
                                   collections.routes[i].id = r.id})
                      = IF "Forward" \in TripDirections(r) THEN 1 ELSE 0
                /\ Cardinality({i \in DOMAIN collections.routes :
                                   collections.routes[i].id = r.id \o "_R"})
                      = IF "Backward" \in TripDirections(r) THEN 1 ELSE 0
          /\ \A i \in DOMAIN collections.routes :
                MadeFrom(collections.routes[i].id) # {}
    /\ RoutesRead =>
          /\ Len(collections.vehicle_journeys) = Len(gtfs.trips)
          /\ \A i \in DOMAIN collections.vehicle_journeys :
                Cardinality({j \in DOMAIN collections.routes :
                                collections.routes[j].id
                                    = collections.vehicle_journeys[i].route_id}) = 1

\* A feed has been read with a route that has trips in both directions and
\* a route without trips.
C22_Witness ==
    /\ RoutesRead
    /\ \E r, o \in Range(gtfs.routes) :
          /\ TripDirections(r) = {"Forward", "Backward"}
          /\ TripDirections(o) = {}
          /\ \E i, j \in DOMAIN collections.routes :
                /\ collections.routes[i].id = r.id
                /\ collections.routes[j].id = r.id \o "_R"
          /\ \E i \in DOMAIN collections.vehicle_journeys :
                collections.vehicle_journeys[i].route_id = r.id \o "_R"

(***************************************************************************)
(* read_routes on trips with accessibility information.                    *)
(***************************************************************************)

\* The trips.txt files of the given rows with wheelchair_accessible empty
\* or 1 and bikes_allowed empty or 2.
AccessibleTripsFiles(trips) ==
    {[i \in DOMAIN trips |->
         [trips[i] EXCEPT !.wheelchair_accessible = wheelchair[trips[i].id],
                          !.bikes_allowed = bike[trips[i].id]]] :
        wheelchair \in [{"t1", "t2", "t3", "t4"} ->
                           Availability \ {"NotAvailable"}],
        bike \in [{"t1", "t2", "t3", "t4"} -> Availability \ {"Available"}]}

\* gtfs::read calls read_routes on a feed of one agency and two routes.
InitTrips ==
    /\ \E rows \in TripsFiles : \E trips \in AccessibleTripsFiles(rows) :
          gtfs = [routes |-> <<GtfsRoute("r1", "n1", "1"), GtfsRoute("r2", "n1", "2")>>,
                  trips |-> trips]
    /\ collections =
          [CollectionsDefault EXCEPT
              !.contributors = <<Entity("contributors", "a")>>,
              !.datasets = <<Entity("datasets", "a")>>,
              !.networks = <<Entity("networks", "n1")>>]
    /\ locals = [gtfs_routes |-> <<>>, gtfs_trips |-> <<>>, map_line_routes |-> <<>>]
    /\ pc = "read_routes"
    /\ edits = 0
    /\ c = CollectionsDefault
    /\ rels = <<>>
    /\ error = NoError
    /\ model = NoModel
    /\ answer = NoAnswer
    /\ Unused({"serialized", "arena", "before"})

SpecTrips == InitTrips /\ [][NextRoutes]_vars

\* The (wheelchair, bike) pairs of the trips of trips.txt other than the
\* pair without information.
PropertyKeys ==
    {<<gtfs.trips[i].wheelchair_accessible, gtfs.trips[i].bikes_allowed>> :
        i \in DOMAIN gtfs.trips}
        \ {<<"InformationNotAvailable", "InformationNotAvailable">>}

\* The vehicle journeys made of a trip.
JourneysOf(trip) ==
    {i \in DOMAIN collections.vehicle_journeys :
        collections.vehicle_journeys[i].id = trip.id}

\* C25: there is one vehicle journey per trip; a trip without wheelchair
\* and bike information has no trip property and none is made for it; the
\* trips of any other (wheelchair, bike) pair share one TripProperty; the
\* ids of the trip properties are distinct and are "1", "2", ... without a
\* gap; a vehicle journey's trip_property_id is the id of a TripProperty
\* holding the two values of its trip.
C25_TripProperties ==
    RoutesRead =>
        /\ Len(collections.vehicle_journeys) = Len(gtfs.trips)
        /\ \A i \in DOMAIN gtfs.trips :
              /\ Cardinality(JourneysOf(gtfs.trips[i])) = 1
              /\ \A j \in JourneysOf(gtfs.trips[i]) :
                    LET trip == gtfs.trips[i]
                        id == collections.vehicle_journeys[j].trip_property_id
                    IN  IF <<trip.wheelchair_accessible, trip.bikes_allowed>>
                              \in PropertyKeys
                        THEN /\ id # None
                             /\ \E k \in DOMAIN collections.trip_properties :
                                   collections.trip_properties[k]
                                       = [id |-> id,
                                          wheelchair_accessible |->
                                              trip.wheelchair_accessible,
                                          bike_accepted |-> trip.bikes_allowed]
                        ELSE id = None
        /\ Len(collections.trip_properties) = Cardinality(PropertyKeys)
        /\ \A k, l \in DOMAIN collections.trip_properties :
              /\ <<collections.trip_properties[k].wheelchair_accessible,
                   collections.trip_properties[k].bike_accepted>> \in PropertyKeys
              /\ collections.trip_properties[k].id = collections.trip_properties[l].id
                    => k = l
        /\ {collections.trip_properties[k].id : k \in DOMAIN collections.trip_properties}
              = {<<"1", "2", "3", "4">>[n] : n \in 1 .. Cardinality(PropertyKeys)}

\* Trips have been read of which one has no accessibility information, two
\* share a pair and one has another pair: there are two trip properties.
C25_Witness ==
    /\ RoutesRead
    /\ Len(collections.trip_properties) = 2
    /\ \E i, j, k, l \in DOMAIN collections.vehicle_journeys :
          /\ collections.vehicle_journeys[i].trip_property_id = None
          /\ j # k
          /\ collections.vehicle_journeys[j].trip_property_id = "1"
          /\ collections.vehicle_journeys[k].trip_property_id = "1"
          /\ collections.vehicle_journeys[l].trip_property_id = "2"

(***************************************************************************)
(* read_routes on routes of any route_type, up to get_modes_from_gtfs.     *)
(***************************************************************************)

\* The most rows of a routes.txt with several route types.
MaxRouteTypes == 3

\* The route types such a routes.txt takes its rows from: around the two
\* ends of the fallback and among the types that share a physical mode.
RouteTypeSamples == {3, 5, 6, 7, 8, 98, 99, 100}

\* The routes.txt files: one route of any u16 route_type, or from two to
\* max routes of the sampled types.
RouteTypesFiles(max) ==
    {<<[GtfsRoute("r1", "n1", "1") EXCEPT !.route_type = i]>> :
        i \in 0 .. u16_MAX}
    \cup
    UNION {{[k \in 1 .. n |->
                [GtfsRoute(<<"r1", "r2", "r3", "r4">>[k], "n1", "1") EXCEPT
                    !.route_type = types[k]]] :
               types \in [1 .. n -> RouteTypeSamples]} :
           n \in 2 .. max}

\* gtfs::read calls read_routes on a feed of one agency.
InitModes ==
    /\ \E routes \in RouteTypesFiles(MaxRouteTypes) : gtfs = [routes |-> routes, trips |-> <<>>]
    /\ collections =
          [CollectionsDefault EXCEPT
              !.contributors = <<Entity("contributors", "a")>>,
              !.datasets = <<Entity("datasets", "a")>>,
              !.networks = <<Entity("networks", "n1")>>]
    /\ locals = [gtfs_routes |-> <<>>, gtfs_trips |-> <<>>, map_line_routes |-> <<>>]
    /\ pc = "read_routes"
    /\ edits = 0
    /\ c = CollectionsDefault
    /\ rels = <<>>
    /\ error = NoError
    /\ model = NoModel
    /\ answer = NoAnswer
    /\ Unused({"serialized", "arena", "before"})

NextModes ==
    \/ read_routes_txt
    \/ set_modes

SpecModes == InitModes /\ [][NextModes]_vars

\* The route type the number i of routes.txt stands for.
Decoded(i) ==
    IF i <= 7
    THEN [variant |-> <<"Tramway_LightRail", "Metro", "Rail", "Bus", "Ferry",
                        "CableCar", "Gondola_SuspendedCableCar", "Funicular">>[i + 1],
          value |-> 0]
    ELSE IF i <= 98 THEN [variant |-> "Bus", value |-> 0]
    ELSE [variant |-> "Other", value |-> i]

\* The GTFS value of the route type the number i stands for.
DecodedValue(i) ==
    IF i <= 7 THEN <<"0", "1", "2", "3", "4", "5", "6", "7">>[i + 1]
    ELSE IF i <= 98 THEN "3"
    ELSE to_string(i)

\* The id of the physical mode of the number i.
PhysicalModeId(i) ==
    IF i = 0 THEN "RailShuttle"
    ELSE IF i = 1 THEN "Metro"
    ELSE IF i = 2 THEN "Train"
    ELSE IF i = 4 THEN "Ferry"
    ELSE IF i \in {5, 6, 7} THEN "Funicular"
    ELSE "Bus"

\* C26: of the u16 route_type of a route, 0 to 7 are decoded as the eight
\* named types, 8 to 98 as Bus and 99 and more as Other(value);
\* to_gtfs_value of the decoded type is the number read for 0 to 7 and for
\* 99 and more and "3" for 8 to 98; the commercial modes made of the route
\* types of a routes.txt have distinct ids, one per decoded type, and the
\* physical modes have distinct ids (5, 6 and 7 give Funicular, Bus and
\* Other give Bus), so read_routes never fails on them.
C26_RouteTypeDecoding ==
    /\ pc \in {"get_modes_from_gtfs", "trips.txt"} /\ DOMAIN gtfs = {"routes", "trips"} =>
          /\ Len(locals.gtfs_routes) = Len(gtfs.routes)
          /\ \A k \in DOMAIN gtfs.routes :
                LET i == gtfs.routes[k].route_type
                    route_type == locals.gtfs_routes[k].route_type
                IN  /\ route_type = Decoded(i)
                    /\ to_gtfs_value(route_type) = DecodedValue(i)
                    /\ get_physical_mode(route_type).id = PhysicalModeId(i)
          /\ \A k, l \in DOMAIN locals.gtfs_routes :
                locals.gtfs_routes[k].route_type # locals.gtfs_routes[l].route_type
                    => to_gtfs_value(locals.gtfs_routes[k].route_type)
                           # to_gtfs_value(locals.gtfs_routes[l].route_type)
    /\ pc = "trips.txt" /\ DOMAIN gtfs = {"routes", "trips"} =>
          /\ {collections.commercial_modes[k].id : k \in DOMAIN collections.commercial_modes}
                = {DecodedValue(r.route_type) : r \in Range(gtfs.routes)}
          /\ {collections.physical_modes[k].id : k \in DOMAIN collections.physical_modes}
                = {PhysicalModeId(r.route_type) : r \in Range(gtfs.routes)}
          /\ \A k, l \in DOMAIN collections.commercial_modes :
                collections.commercial_modes[k].id = collections.commercial_modes[l].id
                    => k = l
          /\ \A k, l \in DOMAIN collections.physical_modes :
                collections.physical_modes[k].id = collections.physical_modes[l].id
                    => k = l
    /\ DOMAIN gtfs = {"routes", "trips"}
          /\ (\A k, l \in DOMAIN gtfs.routes : gtfs.routes[k].id = gtfs.routes[l].id => k = l)
          => pc # "Err"

\* The modes have been made of routes of types 5, 8 and 100, and of routes
\* of types 5, 6 and 7.
C26_Witness ==
    /\ pc = "trips.txt"
    /\ DOMAIN gtfs = {"routes", "trips"}
    /\ {r.route_type : r \in Range(gtfs.routes)} = {5, 8, 100}
    /\ {collections.commercial_modes[k].id : k \in DOMAIN collections.commercial_modes}
          = {"5", "3", "100"}
    /\ Len(collections.physical_modes) = 2

(***************************************************************************)
(* read_transfers on rows of every transfer_type.                          *)
(***************************************************************************)

\* The most rows of a transfers.txt with transfer types.
MaxTypedRows == 2

\* The rows of such a transfers.txt: between two stop points of stops.txt,
\* of any transfer_type, with min_transfer_time empty or 60.
TypedTransferRows ==
    {[TransferRow(from, to) EXCEPT !.transfer_type = transfer_type,
                                   !.min_transfer_time = min_transfer_time] :
        from \in {"s1", "s2"}, to \in {"s1", "s2"},
        transfer_type \in TransferType,
        min_transfer_time \in {NoTime, Some(60)}}

\* gtfs::read has read two stop points, 126 m or 10000 km apart, and is
\* about to call read_transfers.
InitTransferTimes ==
    /\ \E rows \in SeqUpTo(TypedTransferRows, MaxTypedRows) :
          gtfs = [transfers |-> [exists |-> TRUE, rows |-> rows]]
    /\ \E coord \in {126, 10000000} :
          locals = [stop_points |-> <<StopPoint("s1", 0), StopPoint("s2", coord)>>,
                    transfers |-> <<>>, row |-> 1]
    /\ collections = CollectionsDefault
    /\ pc = "read_transfers"
    /\ edits = 0
    /\ c = CollectionsDefault
    /\ rels = <<>>
    /\ error = NoError
    /\ model = NoModel
    /\ answer = NoAnswer
    /\ Unused({"serialized", "arena", "before"})

SpecTransferTimes == InitTransferTimes /\ [][NextTransfers]_vars

\* C27: the transfer made of a row whose stop points are found has the ids
\* of these stop points; Timed gives min_transfer_time and
\* real_min_transfer_time 0, NotPossible gives both 86400, WithTransferTime
\* gives both the min_transfer_time of the row (None when it is empty),
\* and Recommended gives a time t and real_min_transfer_time t + 120.
C27_TransferTimes ==
    pc \in {"read_transfers.for", "collections.transfers",
            "collections.stop_points", "manage_shapes"}
        /\ DOMAIN gtfs = {"transfers"} =>
        /\ Len(locals.transfers) = locals.row - 1
        /\ \A i \in DOMAIN locals.transfers :
              LET row == gtfs.transfers.rows[i]
                  transfer == locals.transfers[i]
              IN  /\ transfer.from_stop_id = row.from_stop_id
                  /\ transfer.to_stop_id = row.to_stop_id
                  /\ HasId(locals.stop_points, transfer.from_stop_id)
                  /\ HasId(locals.stop_points, transfer.to_stop_id)
                  /\ row.transfer_type = "Timed" =>
                        /\ transfer.min_transfer_time = <<0>>
                        /\ transfer.real_min_transfer_time = <<0>>
                  /\ row.transfer_type = "NotPossible" =>
                        /\ transfer.min_transfer_time = <<86400>>
                        /\ transfer.real_min_transfer_time = <<86400>>
                  /\ row.transfer_type = "WithTransferTime" =>
                        /\ transfer.min_transfer_time = row.min_transfer_time
                        /\ transfer.real_min_transfer_time = row.min_transfer_time
                  /\ row.transfer_type = "Recommended" =>
                        /\ Len(transfer.min_transfer_time) = 1
                        /\ transfer.real_min_transfer_time
                              = <<transfer.min_transfer_time[1] + 120>>
        /\ pc \in {"collections.stop_points", "manage_shapes"} =>
              collections.transfers = locals.transfers

\* A recommended transfer between stop points 126 m apart and a transfer
\* with an empty min_transfer_time have been read.
C27_Witness ==
    /\ pc = "manage_shapes"
    /\ DOMAIN gtfs = {"transfers"}
    /\ Len(collections.transfers) = 2
    /\ gtfs.transfers.rows[1].transfer_type = "Recommended"
    /\ collections.transfers[1].from_stop_id = "s1"
    /\ collections.transfers[1].to_stop_id = "s2"
    /\ collections.transfers[1].min_transfer_time = <<160>>
    /\ collections.transfers[1].real_min_transfer_time = <<280>>
    /\ gtfs.transfers.rows[2].transfer_type = "WithTransferTime"
    /\ collections.transfers[2].min_transfer_time = <<>>
    /\ collections.transfers[2].real_min_transfer_time = <<>>

(***************************************************************************)
(* gtfs::manage_stop_times, one action per turn of its loop and one for    *)
(* the statements after the loop.                                          *)
(***************************************************************************)

\* The most rows of a stop_times.txt.
MaxStopTimes == 3

\* A row of stop_times.txt: struct StopTime.
GtfsStopTime(trip_id, stop_id, stop_sequence) ==
    [trip_id |-> trip_id, stop_id |-> stop_id, stop_sequence |-> stop_sequence,
     stop_headsign |-> IF stop_sequence = 1 THEN "over there" ELSE None]

\* The rows of a stop_times.txt: of the trips "t1" and "t2" at the stop
\* points "s1" and "s2", and rows of an unknown trip or an unknown stop.
GtfsStopTimes ==
    {GtfsStopTime(trip_id, stop_id, stop_sequence) :
        trip_id \in {"t1", "t2"}, stop_id \in {"s1", "s2"},
        stop_sequence \in {1, 2}}
    \cup {GtfsStopTime("x", "s1", 1), GtfsStopTime("t1", "x", 1),
          GtfsStopTime("x", "x", 1)}

\* gtfs::read has read two stop points and two trips, whose vehicle
\* journeys have no stop times yet, and calls manage_stop_times.
InitStopTimes ==
    /\ \E rows \in SeqUpTo(GtfsStopTimes, MaxStopTimes) :
          gtfs = [stop_times |-> rows]
    /\ collections =
          [CollectionsDefault EXCEPT
              !.stop_points = <<Entity("stop_points", "s1"),
                                Entity("stop_points", "s2")>>,
              !.vehicle_journeys =
                  <<[Entity("vehicle_journeys", "t1") EXCEPT !.stop_times = <<>>],
                    [Entity("vehicle_journeys", "t2") EXCEPT !.stop_times = <<>>]>>]
    /\ before = collections
    /\ locals = [row |-> 1, headsigns |-> {}]
    /\ pc = "manage_stop_times.for"
    /\ edits = 0
    /\ c = CollectionsDefault
    /\ rels = <<>>
    /\ error = NoError
    /\ model = NoModel
    /\ answer = NoAnswer
    /\ Unused({"serialized", "arena"})

\* The objects::StopTime manage_stop_times pushes for a row.
to_ntfs_stop_time(stop_time, stop_point_idx) ==
    [stop_point_idx |-> stop_point_idx, sequence |-> stop_time.stop_sequence]

\* A turn of the loop that goes on to the next row when a lookup fails.
manage_stop_times_for_skipping ==
    /\ pc = "manage_stop_times.for"
    /\ locals.row <= Len(gtfs.stop_times)
    /\ LET stop_time == gtfs.stop_times[locals.row]
           stop_point_idx == get_idx(collections.stop_points, stop_time.stop_id)
           vj_idx == get_idx(collections.vehicle_journeys, stop_time.trip_id)
       IN  IF stop_point_idx = 0 \/ vj_idx = 0
           THEN /\ locals' = [locals EXCEPT !.row = @ + 1]
                /\ UNCHANGED <<pc, error, collections>>
           ELSE /\ locals' =
                      [locals EXCEPT
                          !.row = @ + 1,
                          !.headsigns =
                              IF stop_time.stop_headsign # None
                              THEN {h \in @ : h[1] # <<vj_idx, stop_time.stop_sequence>>}
                                       \cup {<<(<<vj_idx, stop_time.stop_sequence>>),
                                               stop_time.stop_headsign>>}
                              ELSE @]
                /\ collections' =
                      [collections EXCEPT
                          !.vehicle_journeys[vj_idx].stop_times =
                              Append(@, to_ntfs_stop_time(stop_time, stop_point_idx))]
                /\ UNCHANGED <<pc, error>>
    /\ UNCHANGED <<edits, c, rels, model, answer, serialized, arenaVars, gtfs, before>>

\* A turn of the loop of manage_stop_times: the stop point, then the
\* vehicle journey of the row are looked up, each with `?`; the headsign of
\* the row is kept and the stop time pushed to the vehicle journey.
manage_stop_times_for ==
    /\ pc = "manage_stop_times.for"
    /\ locals.row <= Len(gtfs.stop_times)
    /\ LET stop_time == gtfs.stop_times[locals.row]
           stop_point_idx == get_idx(collections.stop_points, stop_time.stop_id)
           vj_idx == get_idx(collections.vehicle_journeys, stop_time.trip_id)
       IN  IF stop_point_idx = 0
           THEN /\ pc' = "Err"
                /\ error' = [relation |-> "stop_id", id |-> stop_time.stop_id]
                /\ UNCHANGED <<locals, collections>>
           ELSE IF vj_idx = 0
           THEN /\ pc' = "Err"
                /\ error' = [relation |-> "trip_id", id |-> stop_time.trip_id]
                /\ UNCHANGED <<locals, collections>>
           ELSE /\ locals' =
                      [locals EXCEPT
                          !.row = @ + 1,
                          !.headsigns =
                              IF stop_time.stop_headsign # None
                              THEN {h \in @ : h[1] # <<vj_idx, stop_time.stop_sequence>>}
                                       \cup {<<(<<vj_idx, stop_time.stop_sequence>>),
                                               stop_time.stop_headsign>>}
                              ELSE @]
                /\ collections' =
                      [collections EXCEPT
                          !.vehicle_journeys[vj_idx].stop_times =
                              Append(@, to_ntfs_stop_time(stop_time, stop_point_idx))]
                /\ UNCHANGED <<pc, error>>
    /\ UNCHANGED <<edits, c, rels, model, answer, serialized, arenaVars, gtfs, before>>

\* sort_unstable_by_key(|st| st.sequence): the orders the stop times may be
\* left in, stop times of the same sequence being in any order.
sort_unstable_by_key(stop_times) ==
    {[i \in DOMAIN stop_times |-> stop_times[order[i]]] :
        order \in {o \in Orderings(DOMAIN stop_times) :
                      \A i, j \in DOMAIN stop_times :
                          i < j => stop_times[o[i]].sequence <= stop_times[o[j]].sequence}}

\* The statements after the loop: the headsigns are stored, the vehicle
\* journeys taken, the stop times of each sorted, and the collection made
\* again with CollectionWithId::new(vehicle_journeys)?
manage_stop_times_return ==
    /\ pc = "manage_stop_times.for"
    /\ locals.row > Len(gtfs.stop_times)
    /\ \E sorted \in [DOMAIN collections.vehicle_journeys ->
                         UNION {sort_unstable_by_key(collections.vehicle_journeys[i].stop_times) :
                                   i \in DOMAIN collections.vehicle_journeys}] :
          /\ \A i \in DOMAIN collections.vehicle_journeys :
                sorted[i] \in sort_unstable_by_key(collections.vehicle_journeys[i].stop_times)
          /\ LET vehicle_journeys ==
                     CollectionWithIdNew(
                         [i \in DOMAIN collections.vehicle_journeys |->
                             [collections.vehicle_journeys[i] EXCEPT
                                 !.stop_times = sorted[i]]])
             IN  IF vehicle_journeys.ok
                 THEN /\ collections' =
                            [collections EXCEPT
                                !.vehicle_journeys = vehicle_journeys.value]
                      /\ pc' = "Ok"
                      /\ error' = error
                 ELSE /\ collections' = [collections EXCEPT !.vehicle_journeys = <<>>]
                      /\ pc' = "Err"
                      /\ error' = [relation |-> vehicle_journeys.relation,
                                   id |-> vehicle_journeys.id]
    /\ UNCHANGED <<edits, c, rels, model, answer, serialized, arenaVars, gtfs, locals, before>>

NextStopTimes ==
    \/ manage_stop_times_for
    \/ manage_stop_times_return

SpecStopTimes == InitStopTimes /\ [][NextStopTimes]_vars

\* A row of stop_times.txt names a stop point and a vehicle journey.
Resolved(stop_time) ==
    /\ HasId(before.stop_points, stop_time.stop_id)
    /\ HasId(before.vehicle_journeys, stop_time.trip_id)

\* The rows of stop_times.txt of a trip that hold a stop and a sequence.
RowsOf(trip_id, stop_id, sequence) ==
    {i \in DOMAIN gtfs.stop_times :
        /\ gtfs.stop_times[i].trip_id = trip_id
        /\ gtfs.stop_times[i].stop_id = stop_id
        /\ gtfs.stop_times[i].stop_sequence = sequence}

\* The stop times of a vehicle journey that hold a stop point and a
\* sequence.
StopTimesOf(vj, stop_point_idx, sequence) ==
    {i \in DOMAIN vj.stop_times :
        /\ vj.stop_times[i].stop_point_idx = stop_point_idx
        /\ vj.stop_times[i].sequence = sequence}

\* C23: manage_stop_times returns an error at the first row of
\* stop_times.txt whose stop_id is the id of no stop point or whose trip_id
\* is the id of no vehicle journey, and skips no row; when it returns Ok
\* the stop times of each vehicle journey are exactly the rows of its trip,
\* in non-decreasing order of stop_sequence, and the vehicle journeys are
\* the same entities with the same ids in the same order as before.
C23_StopTimesReadAndSorted ==
    DOMAIN gtfs = {"stop_times"} =>
        /\ \A i \in 1 .. (locals.row - 1) : Resolved(gtfs.stop_times[i])
        /\ pc = "Err" =>
              /\ locals.row \in DOMAIN gtfs.stop_times
              /\ ~Resolved(gtfs.stop_times[locals.row])
        /\ pc = "Ok" =>
              /\ \A i \in DOMAIN gtfs.stop_times : Resolved(gtfs.stop_times[i])
              /\ Len(collections.vehicle_journeys) = Len(before.vehicle_journeys)
              /\ \A v \in DOMAIN collections.vehicle_journeys :
                    LET vj == collections.vehicle_journeys[v]
                    IN  /\ [vj EXCEPT !.stop_times = <<>>] = before.vehicle_journeys[v]
                        /\ \A i, j \in DOMAIN vj.stop_times :
                              i < j => vj.stop_times[i].sequence
                                           <= vj.stop_times[j].sequence
                        /\ Len(vj.stop_times)
                              = Cardinality({i \in DOMAIN gtfs.stop_times :
                                                gtfs.stop_times[i].trip_id = vj.id})
                        /\ \A s \in DOMAIN before.stop_points, sequence \in {1, 2} :
                              Cardinality(StopTimesOf(vj, s, sequence))
                                  = Cardinality(RowsOf(vj.id, before.stop_points[s].id,
                                                       sequence))

\* Rows of one trip were read with the later stop first, and a row of the
\* other trip between them; the stop times of the first trip are sorted.
C23_Witness ==
    /\ pc = "Ok"
    /\ DOMAIN gtfs = {"stop_times"}
    /\ Len(gtfs.stop_times) = 3
    /\ gtfs.stop_times[1] = GtfsStopTime("t1", "s2", 2)
    /\ gtfs.stop_times[2].trip_id = "t2"
    /\ gtfs.stop_times[3] = GtfsStopTime("t1", "s1", 1)
    /\ collections.vehicle_journeys[1].stop_times
          = <<[stop_point_idx |-> 1, sequence |-> 1],
              [stop_point_idx |-> 2, sequence |-> 2]>>
    /\ Len(collections.vehicle_journeys[2].stop_times) = 1

(***************************************************************************)
(* gtfs::read::EquipmentList                                               *)
(***************************************************************************)

\* The most calls of EquipmentList::push.
MaxPushes == 5

\* objects::Equipment as get_equipment_id_and_populate_equipments makes it,
\* without an id.
Equipment(wheelchair_boarding, sheltered) ==
    [id |-> "", wheelchair_boarding |-> wheelchair_boarding,
     sheltered |-> sheltered]

\* The equipments that are pushed.
Equipments ==
    {Equipment(wheelchair_boarding, sheltered) :
        wheelchair_boarding \in {"Available", "NotAvailable"},
        sheltered \in {"InformationNotAvailable", "Available"}}

\* EquipmentList::default(): the map `equipments` is empty, nothing has
\* been pushed.
InitEquipments ==
    /\ locals = [equipments |-> <<>>, eqs |-> <<>>]
    /\ pc = "EquipmentList"
    /\ comments = CollectionWithIdDefault
    /\ returned = NoResult
    /\ assigned = <<>>
    /\ gtfs = NoGtfs
    /\ collections = CollectionsDefault
    /\ edits = 0
    /\ c = CollectionsDefault
    /\ rels = <<>>
    /\ error = NoError
    /\ model = NoModel
    /\ answer = NoAnswer
    /\ Unused({"serialized", "before"})

\* EquipmentList::push with insert in place of or_insert.
EquipmentList_push_inserting(equipment) ==
    LET equipment_id == to_string(Cardinality(DOMAIN locals.equipments))
    IN  /\ locals' =
              [locals EXCEPT
                  !.equipments =
                      [e \in DOMAIN @ \cup {equipment} |->
                          IF e = equipment THEN equipment_id ELSE @[e]]]
        /\ returned' = Ok(equipment_id)
        /\ assigned' = Append(assigned, [item |-> equipment, idx |-> equipment_id])

\* EquipmentList::push: the id is the number of entries of the map, kept
\* only if the map has no entry for the equipment; the id of the entry is
\* returned.
EquipmentList_push(equipment) ==
    LET equipment_id == to_string(Cardinality(DOMAIN locals.equipments))
        id == IF equipment \in DOMAIN locals.equipments
              THEN locals.equipments[equipment]
              ELSE equipment_id
    IN  /\ locals' =
              [locals EXCEPT
                  !.equipments =
                      [e \in DOMAIN @ \cup {equipment} |->
                          IF e = equipment THEN id ELSE @[e]]]
        /\ returned' = Ok(id)
        /\ assigned' = Append(assigned, [item |-> equipment, idx |-> id])

\* A stop with wheelchair information is read: its equipment is pushed.
PushEquipment ==
    /\ pc = "EquipmentList"
    /\ Len(assigned) < MaxPushes
    /\ \E equipment \in Equipments : EquipmentList_push(equipment)
    /\ UNCHANGED <<modelVars, serialized, comments, gtfs, before>>

\* The number a decimal string stands for.
from_string(id) == CHOOSE n \in 0 .. MaxPushes + 1 : to_string(n) = id

RECURSIVE digits(_)
\* The digits of the decimal string of n, the first first.
digits(n) == IF n < 10 THEN <<n>> ELSE Append(digits(n \div 10), n % 10)

RECURSIVE cmp_le(_, _)
\* l <= r on the sequences of digits of two strings: the order of String.
cmp_le(l, r) ==
    IF l = <<>> THEN TRUE
    ELSE IF r = <<>> THEN FALSE
    ELSE IF Head(l) # Head(r) THEN Head(l) < Head(r)
    ELSE cmp_le(Tail(l), Tail(r))

\* EquipmentList::into_equipments: each equipment of the map with its id,
\* sorted by id.
into_equipments(equipments) ==
    LET eqs == {[e EXCEPT !.id = equipments[e]] : e \in DOMAIN equipments}
    IN  CHOOSE sorted \in Orderings(eqs) :
            \A i, j \in DOMAIN sorted :
                i < j => cmp_le(digits(from_string(sorted[i].id)),
                                digits(from_string(sorted[j].id)))

\* gtfs::read: equipments.into_equipments(), which consumes the list.
IntoEquipments ==
    /\ pc = "EquipmentList"
    /\ locals' = [locals EXCEPT !.eqs = into_equipments(locals.equipments)]
    /\ pc' = "into_equipments"
    /\ UNCHANGED <<collections, edits, c, rels, error, model, answer, serialized, arenaVars, gtfs, before>>

NextEquipments ==
    \/ PushEquipment
    \/ IntoEquipments

SpecEquipments == InitEquipments /\ [][NextEquipments]_vars

\* The distinct equipments pushed so far.
Pushed == {assigned[i].item : i \in DOMAIN assigned}

\* The decimal strings "0" .. "n-1".
DecimalStrings(n) == {<<"0", "1", "2", "3", "4", "5", "6">>[k] : k \in 1 .. n}

\* C24: a push of an equipment equal to one pushed before returns the id
\* returned the first time and adds nothing; distinct equipments get
\* distinct ids; the ids in use are the decimal strings "0" .. "n-1" for n
\* distinct equipments; into_equipments returns n equipments, one per id,
\* sorted by id.
C24_EquipmentIds ==
    pc \in {"EquipmentList", "into_equipments"} =>
        /\ \A i, j \in DOMAIN assigned :
              (assigned[i].item = assigned[j].item)
                  <=> (assigned[i].idx = assigned[j].idx)
        /\ Len(assigned) > 0 => returned = Ok(assigned[Len(assigned)].idx)
        /\ DOMAIN locals.equipments = Pushed
        /\ \A i \in DOMAIN assigned :
              locals.equipments[assigned[i].item] = assigned[i].idx
        /\ {assigned[i].idx : i \in DOMAIN assigned}
              = DecimalStrings(Cardinality(Pushed))
        /\ pc = "into_equipments" =>
              /\ Len(locals.eqs) = Cardinality(Pushed)
              /\ \A k \in DOMAIN locals.eqs :
                    /\ locals.eqs[k].id = <<"0", "1", "2", "3", "4", "5", "6">>[k]
                    /\ \E e \in Pushed :
                          /\ locals.equipments[e] = locals.eqs[k].id
                          /\ locals.eqs[k] = [e EXCEPT !.id = locals.eqs[k].id]

\* Two equipments have been pushed, the first a second time after the
\* second, and into_equipments has returned the two.
C24_Witness ==
    /\ pc = "into_equipments"
    /\ Len(assigned) = 3
    /\ assigned[1].item = assigned[3].item
    /\ assigned[1].item # assigned[2].item
    /\ assigned[3].idx = "0"
    /\ Len(locals.eqs) = 2

====
